---------------------------- MODULE Spec2Model ----------------------------
(***************************************************************************)
(* Lead enrichment and quality reconciliation (SearchNode / EnrichNode).   *)
(*                                                                         *)
(* JavaScript strings are sequences of one-character strings, so that      *)
(* includes(), the profile regex, template-string joins and length tests   *)
(* are computed on the characters.  A JavaScript value that may be absent  *)
(* is a record [t, s]: t is "null", "undefined" or "str".                  *)
(***************************************************************************)
EXTENDS Integers, Sequences, FiniteSets, TLC

VARIABLES
    \* SearchNode.updateExistingLeadsWithRocketReach
    existingLeads, leadsToUpdate, ui, upc, contactInfo, leadBefore, passStart, ucalls,
    \* SearchNode.removeDuplicateLeads
    allLeads, uniqueLeads, dpc,
    \* SearchNode.validateLeadsWithLLM
    vLeads, vi, vpc, vResponse, vLeadsBefore, vCalls,
    \* EnrichNode.run and enrichLeadWithPersonalityAnalysis
    stored, stateLeads, epc, caller, leadsToEnrich, ei, leadArg, websiteContents,
    linkedinUrls, nonLinkedInWebsites, websitesToScrape, si, fetchLog, combinedContent,
    personalityAnalysis, enrichedLead, calls, invocations, summaryResponse,
    \* EnrichNode.getPersonalityDataForIntegration: the lead given, the value returned
    integrationLead, integrationData,
    \* EnrichNode.searchPersonWithJina
    searchName, searchCompany, approach, spc, queryLog, answerLog, searchReturn,
    \* the leads the passes run over (SearchNode.run's allLeads), the last pass, the count
    newLeads, lastPass, passes,
    \* SearchNode.run: state.leads, allLeads, the persona loop, and what the run saw
    runState, runAllLeads, personas, persona, rpc, hasLLM, runs,
    runStoredBefore, runFound, runValidated, runResponse,
    \* SearchNode.hasLowQualityEmail: the address given, the answer
    qEmail, qpc, qFlag,
    \* SearchNode.enrichLeadsWithRocketReach: the leads given, the leads as the
    \* first call received them, the loop position, the provider calls of the
    \* current call, the calls made, the outcomes met
    nLeads, nInput, nNeeding, ni, npc, nCalls, nInvocations, nLog,
    \* EnrichNode.run invoked again and again: state.leads, the people no search
    \* finds, the batch of the run, the loop position, the leads attempted so far
    pLeads, pNeverFound, pBatch, pIdx, ppc, pAttempted

varsU == <<existingLeads, leadsToUpdate, ui, upc, contactInfo, leadBefore, passStart, ucalls>>
varsD == <<allLeads, uniqueLeads, dpc>>
varsV == <<vLeads, vi, vpc, vResponse, vLeadsBefore, vCalls>>
varsE == <<stored, stateLeads, epc, caller, leadsToEnrich, ei, leadArg, websiteContents,
          linkedinUrls, nonLinkedInWebsites, websitesToScrape, si, fetchLog, combinedContent,
          personalityAnalysis, enrichedLead, calls, invocations, summaryResponse,
          integrationLead, integrationData>>
varsS == <<searchName, searchCompany, approach, spc, queryLog, answerLog, searchReturn>>
varsC == <<newLeads, lastPass, passes>>
varsR == <<runState, runAllLeads, personas, persona, rpc, hasLLM, runs,
          runStoredBefore, runFound, runValidated, runResponse>>
varsQ == <<qEmail, qpc, qFlag>>
varsN == <<nLeads, nInput, nNeeding, ni, npc, nCalls, nInvocations, nLog>>
varsP == <<pLeads, pNeverFound, pBatch, pIdx, ppc, pAttempted>>
vars == <<varsU, varsD, varsV, varsE, varsS, varsC, varsR, varsQ, varsN, varsP>>

-----------------------------------------------------------------------------
(* JavaScript values *)

JNull == [t |-> "null", s |-> <<>>]
JUndefined == [t |-> "undefined", s |-> <<>>]
Str(s) == [t |-> "str", s |-> s]

\* !v for a value that is null, undefined or a string
Truthy(v) == v.t = "str" /\ v.s # <<>>

\* String.prototype.includes
Includes(s, p) == \E i \in 0..(Len(s) - Len(p)) : SubSeq(s, i + 1, i + Len(p)) = p

\* String.prototype.startsWith
StartsWith(s, p) == Len(s) >= Len(p) /\ SubSeq(s, 1, Len(p)) = p

-----------------------------------------------------------------------------
(* String literals of the source and the sample values of the model *)

\* "@financialservic.com.fr"
PatFinancialservic ==
    <<"@","f","i","n","a","n","c","i","a","l","s","e","r","v","i","c",".","c","o","m",".","f","r">>
\* "@example.com"
PatExample ==
    <<"@","e","x","a","m","p","l","e",".","c","o","m">>
\* "@test.com"
PatTest ==
    <<"@","t","e","s","t",".","c","o","m">>
\* "@placeholder.com"
PatPlaceholder ==
    <<"@","p","l","a","c","e","h","o","l","d","e","r",".","c","o","m">>
\* "noreply@"
PatNoreply ==
    <<"n","o","r","e","p","l","y","@">>
\* "support@"
PatSupport ==
    <<"s","u","p","p","o","r","t","@">>
\* "info@"
PatInfo ==
    <<"i","n","f","o","@">>
\* "http"
ReHttp ==
    <<"h","t","t","p">>
\* "s"
ReS ==
    <<"s">>
\* "://"
ReColonSlashes ==
    <<":","/","/">>
\* "www."
ReWww ==
    <<"w","w","w",".">>
\* "linkedin.com/in/"
ReLinkedinIn ==
    <<"l","i","n","k","e","d","i","n",".","c","o","m","/","i","n","/">>
\* "Financial Services Company"
GenFinancialServicesCompany ==
    <<"F","i","n","a","n","c","i","a","l"," ","S","e","r","v","i","c","e","s"," ","C","o","m","p","a","n","y">>
\* "Services Financiers Européens"
GenServicesFinanciers ==
    <<"S","e","r","v","i","c","e","s"," ","F","i","n","a","n","c","i","e","r","s"," ","E","u","r","o","p","é","e","n","s">>
\* "Group Financial Services"
GenGroupFinancialServices ==
    <<"G","r","o","u","p"," ","F","i","n","a","n","c","i","a","l"," ","S","e","r","v","i","c","e","s">>
\* "Unknown Company"
GenUnknownCompany ==
    <<"U","n","k","n","o","w","n"," ","C","o","m","p","a","n","y">>
\* "Company"
GenCompany ==
    <<"C","o","m","p","a","n","y">>
\* "Corporation"
GenCorporation ==
    <<"C","o","r","p","o","r","a","t","i","o","n">>
\* "Professional"
TxtProfessional ==
    <<"P","r","o","f","e","s","s","i","o","n","a","l">>
\* "Unknown"
TxtUnknown ==
    <<"U","n","k","n","o","w","n">>
\* "null"
TxtNull ==
    <<"n","u","l","l">>
\* "undefined"
TxtUndefined ==
    <<"u","n","d","e","f","i","n","e","d">>
\* "_"
TxtUnderscore ==
    <<"_">>
\* "jane@financialservic.com.fr"
EmailPlaceholderJane ==
    <<"j","a","n","e","@","f","i","n","a","n","c","i","a","l","s","e","r","v","i","c",".","c","o","m",".","f","r">>
\* "jane.doe@acme.com"
EmailJaneDoe ==
    <<"j","a","n","e",".","d","o","e","@","a","c","m","e",".","c","o","m">>
\* "info@acme.com"
EmailInfoAcme ==
    <<"i","n","f","o","@","a","c","m","e",".","c","o","m">>
\* "bob@corp.io"
EmailBob ==
    <<"b","o","b","@","c","o","r","p",".","i","o">>
\* "https://news.example.com/article"
UrlNewsArticle ==
    <<"h","t","t","p","s",":","/","/","n","e","w","s",".","e","x","a","m","p","l","e",".","c","o","m","/","a","r","t","i","c","l","e">>
\* "https://linkedin.com/in/janedoe"
UrlLinkedinJane ==
    <<"h","t","t","p","s",":","/","/","l","i","n","k","e","d","i","n",".","c","o","m","/","i","n","/","j","a","n","e","d","o","e">>
\* "http://www.linkedin.com/in/jd"
UrlWwwLinkedinJd ==
    <<"h","t","t","p",":","/","/","w","w","w",".","l","i","n","k","e","d","i","n",".","c","o","m","/","i","n","/","j","d">>
\* "https://be.linkedin.com/in/jd"
UrlBeLinkedinJd ==
    <<"h","t","t","p","s",":","/","/","b","e",".","l","i","n","k","e","d","i","n",".","c","o","m","/","i","n","/","j","d">>
\* "Acme"
CoAcme ==
    <<"A","c","m","e">>
\* "Acme Corp"
CoAcmeCorp ==
    <<"A","c","m","e"," ","C","o","r","p">>
\* "CEO"
TitleCEO ==
    <<"C","E","O">>
\* "VP"
TitleVP ==
    <<"V","P">>
\* "VP of Sales"
TitleVPSales ==
    <<"V","P"," ","o","f"," ","S","a","l","e","s">>
\* "CTO"
TitleCTO ==
    <<"C","T","O">>
\* "Paris"
LocParis ==
    <<"P","a","r","i","s">>
\* "Lyon"
LocLyon ==
    <<"L","y","o","n">>
\* "Updated"
TxtUpdated ==
    <<"U","p","d","a","t","e","d">>
\* "Added"
TxtAdded ==
    <<"A","d","d","e","d">>
\* "None"
TxtNone ==
    <<"N","o","n","e">>
\* "a"
DA ==
    <<"a">>
\* "a_b"
DAB ==
    <<"a","_","b">>
\* "b_c"
DBC ==
    <<"b","_","c">>
\* "c"
DC ==
    <<"c">>

\* "\n\n...[Content truncated to fit context limits]"
MarkerContext ==
    <<"\n","\n",".",".",".","[","C","o","n","t","e","n","t"," ","t","r","u","n","c","a","t","e","d"," ","t","o"," ","f","i","t"," ","c","o","n","t","e","x","t"," ","l","i","m","i","t","s","]">>
\* "...[truncated]"
MarkerTruncated ==
    <<".",".",".","[","t","r","u","n","c","a","t","e","d","]">>
\* "\n\n---\n\n"
JoinSeparator ==
    <<"\n","\n","-","-","-","\n","\n">>
\* "Source: "
LblSource ==
    <<"S","o","u","r","c","e",":"," ">>
\* "\nTitle: "
LblTitle ==
    <<"\n","T","i","t","l","e",":"," ">>
\* "\nContent: "
LblContent ==
    <<"\n","C","o","n","t","e","n","t",":"," ">>
\* "N/A"
TxtNA ==
    <<"N","/","A">>
\* "linkedin.com"
PatLinkedinCom ==
    <<"l","i","n","k","e","d","i","n",".","c","o","m">>
\* "/login"
PatLogin ==
    <<"/","l","o","g","i","n">>
\* "/signup"
PatSignup ==
    <<"/","s","i","g","n","u","p">>
\* "auth"
PatAuth ==
    <<"a","u","t","h">>
\* "sign-in"
PatSignIn ==
    <<"s","i","g","n","-","i","n">>
\* "https://acme.com/team"
UrlAcmeTeam ==
    <<"h","t","t","p","s",":","/","/","a","c","m","e",".","c","o","m","/","t","e","a","m">>
\* "https://acme.com/login"
UrlAcmeLogin ==
    <<"h","t","t","p","s",":","/","/","a","c","m","e",".","c","o","m","/","l","o","g","i","n">>
\* "https://blog.example.org/jane"
UrlBlogJane ==
    <<"h","t","t","p","s",":","/","/","b","l","o","g",".","e","x","a","m","p","l","e",".","o","r","g","/","j","a","n","e">>
\* "https://press.example.net/jane-doe"
UrlPressJane ==
    <<"h","t","t","p","s",":","/","/","p","r","e","s","s",".","e","x","a","m","p","l","e",".","n","e","t","/","j","a","n","e","-","d","o","e">>
\* "https://forum.dev/p/1"
UrlForumPost ==
    <<"h","t","t","p","s",":","/","/","f","o","r","u","m",".","d","e","v","/","p","/","1">>
\* "Jane Doe - CEO"
TitleJaneCEO ==
    <<"J","a","n","e"," ","D","o","e"," ","-"," ","C","E","O">>

-----------------------------------------------------------------------------
(* Field quality classifier: SearchNode.hasLowQuality*                      *)

lowQualityPatterns ==
    {PatFinancialservic, PatExample, PatTest, PatPlaceholder,
     PatNoreply, PatSupport, PatInfo}

hasLowQualityEmail(email) ==
    IF ~Truthy(email) THEN TRUE
    ELSE \E pattern \in lowQualityPatterns : Includes(email.s, pattern)

\* /^https?:\/\/(www\.)?linkedin\.com\/in\//
linkedinPattern(s) ==
    \E sOpt \in {<<>>, ReS}, wwwOpt \in {<<>>, ReWww} :
        StartsWith(s, ReHttp \o sOpt \o ReColonSlashes \o wwwOpt \o ReLinkedinIn)

hasLowQualityLinkedIn(linkedinUrl) ==
    IF ~Truthy(linkedinUrl) THEN TRUE
    ELSE ~linkedinPattern(linkedinUrl.s)

genericCompanies ==
    {GenFinancialServicesCompany, GenServicesFinanciers, GenGroupFinancialServices,
     GenUnknownCompany, GenCompany, GenCorporation}

hasLowQualityCompany(company) ==
    IF ~Truthy(company) THEN TRUE
    ELSE company.s \in genericCompanies

missingLocation(location) == ~Truthy(location) \/ location = Str(TxtUnknown)

NeedsUpdateWhateverTheFlag(lead) ==
    \/ hasLowQualityEmail(lead.email)
    \/ hasLowQualityLinkedIn(lead.linkedin_url)
    \/ hasLowQualityCompany(lead.company)
    \/ missingLocation(lead.location)

NeedsUpdateIgnoringLocation(lead) ==
    IF lead.rocketreach_updated THEN FALSE
    ELSE \/ hasLowQualityEmail(lead.email)
         \/ hasLowQualityLinkedIn(lead.linkedin_url)
         \/ hasLowQualityCompany(lead.company)

needsRocketReachUpdate(lead) ==
    IF lead.rocketreach_updated THEN FALSE
    ELSE \/ hasLowQualityEmail(lead.email)
         \/ hasLowQualityLinkedIn(lead.linkedin_url)
         \/ hasLowQualityCompany(lead.company)
         \/ missingLocation(lead.location)

-----------------------------------------------------------------------------
(* Field upgrade decider: SearchNode.is*Better                              *)

EmailBetterIfCandidateGood(newEmail, currentEmail) == ~hasLowQualityEmail(newEmail)

isEmailBetter(newEmail, currentEmail) ==
    IF ~Truthy(currentEmail) THEN TRUE
    ELSE IF hasLowQualityEmail(currentEmail) /\ ~hasLowQualityEmail(newEmail) THEN TRUE
    ELSE FALSE

isLinkedInBetter(newLinkedIn, currentLinkedIn) ==
    IF ~Truthy(currentLinkedIn) THEN TRUE
    ELSE IF hasLowQualityLinkedIn(currentLinkedIn) /\ ~hasLowQualityLinkedIn(newLinkedIn) THEN TRUE
    ELSE FALSE

isCompanyBetter(newCompany, currentCompany) ==
    IF ~Truthy(currentCompany) THEN TRUE
    ELSE IF hasLowQualityCompany(currentCompany) /\ ~hasLowQualityCompany(newCompany) THEN TRUE
    ELSE FALSE

\* newTitle is a non-empty string at the only call site (line 1018)
isTitleBetter(newTitle, currentTitle) ==
    IF ~Truthy(currentTitle) \/ currentTitle = Str(TxtProfessional) THEN TRUE
    ELSE IF Len(newTitle.s) > Len(currentTitle.s) /\ ~Includes(newTitle.s, currentTitle.s) THEN TRUE
    ELSE FALSE

-----------------------------------------------------------------------------
(* Contact-upgrade pass: SearchNode.updateExistingLeadsWithRocketReach      *)

MaxExistingLeads == 2

EmailValues == {JNull, Str(EmailPlaceholderJane), Str(EmailJaneDoe), Str(EmailInfoAcme), Str(EmailBob)}
LinkedInValues == {JNull, Str(UrlNewsArticle), Str(UrlLinkedinJane), Str(UrlWwwLinkedinJd), Str(UrlBeLinkedinJd)}
CompanyValues == {JNull, Str(GenUnknownCompany), Str(GenCompany), Str(TxtUnknown), Str(CoAcme), Str(CoAcmeCorp)}
TitleValues == {JNull, Str(TxtProfessional), Str(TitleCEO), Str(TitleVP), Str(TitleVPSales), Str(TitleCTO)}

StoredLead(email, linkedin, company, title, location) ==
    [email |-> email, linkedin_url |-> linkedin, company |-> company, title |-> title,
     location |-> location, rocketreach_updated |-> FALSE, rocketreach_updates |-> <<>>]

\* stored leads as the discovery stage leaves them
ExistingLeadPool ==
    {StoredLead(Str(EmailPlaceholderJane), Str(UrlNewsArticle), Str(GenUnknownCompany),
                Str(TxtProfessional), Str(TxtUnknown)),
     StoredLead(Str(EmailJaneDoe), Str(UrlLinkedinJane), Str(CoAcme), Str(TitleCEO), Str(LocParis)),
     StoredLead(JNull, Str(UrlLinkedinJane), Str(CoAcme), Str(TitleVP), Str(LocParis)),
     StoredLead(Str(EmailJaneDoe), JNull, Str(GenCompany), Str(TitleCEO), JUndefined),
     StoredLead(Str(EmailInfoAcme), Str(UrlWwwLinkedinJd), Str(CoAcmeCorp), Str(TitleVPSales),
                Str(LocParis)),
     StoredLead(Str(EmailBob), Str(UrlWwwLinkedinJd), Str(CoAcmeCorp), Str(TitleCTO),
                Str(TxtUnknown))}

\* the pool for a list of n stored leads: every kind of lead for one or two leads,
\* for longer lists a lead with every field low quality, one with every field good
\* and one that lacks only its location
ExistingLeadPoolFor(n) ==
    IF n <= 2 THEN ExistingLeadPool
    ELSE {StoredLead(Str(EmailPlaceholderJane), Str(UrlNewsArticle), Str(GenUnknownCompany),
                     Str(TxtProfessional), Str(TxtUnknown)),
          StoredLead(Str(EmailJaneDoe), Str(UrlLinkedinJane), Str(CoAcme), Str(TitleCEO),
                     Str(LocParis)),
          StoredLead(Str(EmailBob), Str(UrlWwwLinkedinJd), Str(CoAcmeCorp), Str(TitleCTO),
                     Str(TxtUnknown))}

Extracted(email, linkedin, company, title, location) ==
    [email |-> email, linkedin_url |-> linkedin, company |-> company, title |-> title,
     location |-> location]

\* JSON objects the extraction model may answer with
ExtractedPool ==
    {Extracted(Str(EmailJaneDoe), Str(UrlLinkedinJane), Str(CoAcme), Str(TitleVPSales), Str(LocLyon)),
     Extracted(Str(EmailPlaceholderJane), Str(UrlNewsArticle), Str(GenCompany),
               Str(TxtProfessional), JNull),
     Extracted(JNull, JNull, Str(TxtUnknown), Str(TxtProfessional), JNull),
     Extracted(Str(EmailBob), Str(UrlWwwLinkedinJd), Str(CoAcmeCorp), Str(TitleCTO), Str(LocParis)),
     Extracted(Str(EmailInfoAcme), Str(UrlBeLinkedinJd), JNull, Str(TitleCEO), Str(TxtUnknown))}

NoContact == [none |-> TRUE]

\* provider calls issued: searches, page fetches, model requests
NoCalls == [search |-> 0, fetch |-> 0, llm |-> 0]
IsContact(info) == "email" \in DOMAIN info

hasUsefulInfo(info) ==
    \/ Truthy(info.email)
    \/ Truthy(info.linkedin_url)
    \/ (Truthy(info.company) /\ info.company # Str(TxtUnknown))
    \/ (Truthy(info.title) /\ info.title # Str(TxtProfessional))

\* the contact info extractRocketReachContactInfo returns for a parsed answer
extractRocketReachContactInfo(answer) ==
    IF hasUsefulInfo(answer) THEN answer ELSE NoContact

Diff(field, old, new) == [field |-> field, old |-> old, new |-> new]

ApplyAndMarkAttempted(lead, info) ==
    [lead EXCEPT
        !.email = IF Truthy(info.email) /\ isEmailBetter(info.email, lead.email)
                  THEN info.email ELSE @,
        !.rocketreach_updated = TRUE]

\* lines 992-1044: the per-field upgrades, in order, then the audit marks
ApplyContactInfo(lead, info) ==
    LET upEmail == Truthy(info.email) /\ isEmailBetter(info.email, lead.email)
        upLinkedIn == Truthy(info.linkedin_url)
                        /\ isLinkedInBetter(info.linkedin_url, lead.linkedin_url)
        upCompany == Truthy(info.company) /\ isCompanyBetter(info.company, lead.company)
        upTitle == Truthy(info.title) /\ isTitleBetter(info.title, lead.title)
        upLocation == Truthy(info.location) /\ missingLocation(lead.location)
        updates ==
            (IF upEmail THEN <<Diff("email", lead.email, info.email)>> ELSE <<>>)
            \o (IF upLinkedIn
                THEN <<Diff("linkedin_url",
                            IF Truthy(lead.linkedin_url) THEN Str(TxtUpdated) ELSE Str(TxtAdded),
                            info.linkedin_url)>>
                ELSE <<>>)
            \o (IF upCompany THEN <<Diff("company", lead.company, info.company)>> ELSE <<>>)
            \o (IF upTitle THEN <<Diff("title", lead.title, info.title)>> ELSE <<>>)
            \o (IF upLocation
                THEN <<Diff("location",
                            IF Truthy(lead.location) THEN lead.location ELSE Str(TxtNone),
                            info.location)>>
                ELSE <<>>)
    IN  [email |-> IF upEmail THEN info.email ELSE lead.email,
         linkedin_url |-> IF upLinkedIn THEN info.linkedin_url ELSE lead.linkedin_url,
         company |-> IF upCompany THEN info.company ELSE lead.company,
         title |-> IF upTitle THEN info.title ELSE lead.title,
         location |-> IF upLocation THEN info.location ELSE lead.location,
         rocketreach_updated |-> IF updates # <<>> THEN TRUE ELSE lead.rocketreach_updated,
         rocketreach_updates |-> IF updates # <<>> THEN updates ELSE lead.rocketreach_updates]

RECURSIVE IndicesWhere(_, _)
\* the indices k >= i of existingLeads that the filter of line 951 keeps, in order
IndicesWhere(leads, i) ==
    IF i > Len(leads) THEN <<>>
    ELSE (IF needsRocketReachUpdate(leads[i]) THEN <<i>> ELSE <<>>) \o IndicesWhere(leads, i + 1)

\* what one loop iteration may meet: the search throws, no rocketreach.co result,
\* a profile page too short to read (no model request), a model request that throws
\* or answers no JSON, or a parsed answer of the extraction model
IterationOutcomes ==
    {[kind |-> "searchThrows"], [kind |-> "noProfile"], [kind |-> "pageTooShort"],
     [kind |-> "noContact"]}
    \cup {[kind |-> "answer", answer |-> a] : a \in ExtractedPool}

\* the provider calls of one iteration: jinaSearch.search (line 976), then
\* readWebsite (line 1337) and the chat completion (line 1367) of the extraction
CallsOf(outcome) ==
    [search |-> 1,
     fetch |-> IF outcome.kind \in {"searchThrows", "noProfile"} THEN 0 ELSE 1,
     llm |-> IF outcome.kind \in {"searchThrows", "noProfile", "pageTooShort"} THEN 0 ELSE 1]

InitU ==
    /\ existingLeads \in UNION {[1..n -> ExistingLeadPoolFor(n)] : n \in 1..MaxExistingLeads}
    /\ leadsToUpdate = <<>>
    /\ ui = 1
    /\ upc = "idle"
    /\ contactInfo = NoContact
    /\ leadBefore = NoContact
    /\ passStart = <<>>
    /\ ucalls = <<>>

IdleU ==
    /\ existingLeads = <<>>
    /\ leadsToUpdate = <<>>
    /\ ui = 1
    /\ upc = "off"
    /\ contactInfo = NoContact
    /\ leadBefore = NoContact
    /\ passStart = <<>>
    /\ ucalls = <<>>

\* lines 947-966: select the leads to update; return at once when there is none
UpdateExistingStart ==
    /\ upc = "idle"
    /\ leadsToUpdate' = IndicesWhere(existingLeads, 1)
    /\ ui' = 1
    /\ upc' = IF IndicesWhere(existingLeads, 1) = <<>> THEN "idle" ELSE "loop"
    /\ contactInfo' = NoContact
    /\ leadBefore' = NoContact
    /\ passStart' = existingLeads
    /\ ucalls' = [k \in DOMAIN existingLeads |-> NoCalls]
    /\ UNCHANGED existingLeads
    /\ UNCHANGED <<varsD, varsV, varsE, varsS, varsC, varsR, varsQ, varsN, varsP>>

\* lines 968-1063: one iteration of the loop over leadsToUpdate
UpdateExistingStep ==
    /\ upc = "loop"
    /\ \E outcome \in IterationOutcomes :
         LET k == leadsToUpdate[ui]
             lead == existingLeads[k]
             info == IF outcome.kind = "answer"
                     THEN extractRocketReachContactInfo(outcome.answer)
                     ELSE NoContact
         IN  /\ contactInfo' = info
             /\ leadBefore' = lead
             /\ existingLeads' =
                    IF ~IsContact(info) THEN existingLeads
                    ELSE [existingLeads EXCEPT ![k] = ApplyContactInfo(lead, info)]
             /\ ucalls' = [ucalls EXCEPT ![k] = CallsOf(outcome)]
    /\ ui' = ui + 1
    /\ upc' = IF ui + 1 > Len(leadsToUpdate) THEN "idle" ELSE "loop"
    /\ UNCHANGED <<leadsToUpdate, passStart>>
    /\ UNCHANGED <<varsD, varsV, varsE, varsS, varsC, varsR, varsQ, varsN, varsP>>

NextU == UpdateExistingStart \/ UpdateExistingStep

-----------------------------------------------------------------------------
(* Lead deduplicator: SearchNode.removeDuplicateLeads                       *)

MaxLeads == 3

\* a template-string substitution ${v}
TemplateString(v) ==
    IF v.t = "null" THEN TxtNull
    ELSE IF v.t = "undefined" THEN TxtUndefined
    ELSE v.s

\* `${lead.email}_${lead.linkedin_url}`
KeyOf(lead) == TemplateString(lead.email) \o TxtUnderscore \o TemplateString(lead.linkedin_url)

RECURSIVE FilterLastSeen(_, _, _)
FilterLastSeen(leads, i, seen) ==
    IF i < 1 THEN <<>>
    ELSE IF KeyOf(leads[i]) \in seen THEN FilterLastSeen(leads, i - 1, seen)
    ELSE FilterLastSeen(leads, i - 1, seen \cup {KeyOf(leads[i])}) \o <<leads[i]>>

RemoveKeepingLast(leads) == FilterLastSeen(leads, Len(leads), {})

RECURSIVE FilterUnseen(_, _, _)
\* leads.filter(...) from index i on, with the keys seen so far
FilterUnseen(leads, i, seen) ==
    IF i > Len(leads) THEN <<>>
    ELSE IF KeyOf(leads[i]) \in seen THEN FilterUnseen(leads, i + 1, seen)
    ELSE <<leads[i]>> \o FilterUnseen(leads, i + 1, seen \cup {KeyOf(leads[i])})

removeDuplicateLeads(leads) == FilterUnseen(leads, 1, {})

DedupEmails == {JUndefined, JNull, Str(TxtNull), Str(DA), Str(DAB)}
DedupLinkedIns == {JUndefined, Str(DBC), Str(DC)}

\* candidate leads; name is the position in the candidate list
InitD ==
    /\ \E n \in 0..MaxLeads :
         \E e \in [1..n -> DedupEmails], l \in [1..n -> DedupLinkedIns] :
            allLeads = [i \in 1..n |-> [name |-> i, email |-> e[i], linkedin_url |-> l[i]]]
    /\ uniqueLeads = <<>>
    /\ dpc = "input"

IdleD ==
    /\ allLeads = <<>>
    /\ uniqueLeads = <<>>
    /\ dpc = "off"

RemoveDuplicates ==
    /\ dpc = "input"
    /\ uniqueLeads' = removeDuplicateLeads(allLeads)
    /\ dpc' = "done"
    /\ UNCHANGED allLeads
    /\ UNCHANGED <<varsU, varsV, varsE, varsS, varsC, varsR, varsQ, varsN, varsP>>

NextD == RemoveDuplicates

-----------------------------------------------------------------------------
(* Lead validator: SearchNode.validateLeadsWithLLM                          *)

batchSize == 10
MaxValidated == 12
MaxValidations == 2

DefaultKeptReason == "Validation failed, kept by default"

\* the 1-based positions of leads.slice(i, i + batchSize)
BatchOf(leads, i) == {k \in DOMAIN leads : i < k /\ k <= i + batchSize}

\* the callback taking the index of a verdict as a position of the whole list
ApplyValidationNoOffset(leads, i, validation) ==
    LET batchIndex == validation.index
        globalIndex == batchIndex
    IN  IF /\ batchIndex >= 0
           /\ batchIndex < Cardinality(BatchOf(leads, i))
           /\ globalIndex < Len(leads)
        THEN [leads EXCEPT ![globalIndex + 1] =
                 [@ EXCEPT !.is_valid_person = validation.is_valid_person,
                           !.validation_reason = validation.reason]]
        ELSE leads

\* one callback of result.validations.forEach (lines 1461-1478)
ApplyValidation(leads, i, validation) ==
    LET batchIndex == validation.index
        globalIndex == i + batchIndex
    IN  IF /\ batchIndex >= 0
           /\ batchIndex < Cardinality(BatchOf(leads, i))
           /\ globalIndex < Len(leads)
        THEN [leads EXCEPT ![globalIndex + 1] =
                 [@ EXCEPT !.is_valid_person = validation.is_valid_person,
                           !.validation_reason = validation.reason]]
        ELSE leads

RECURSIVE ApplyValidations(_, _, _, _)
\* the forEach from entry k on; a null entry makes validation.index throw
ApplyValidations(leads, i, validations, k) ==
    IF k > Len(validations) THEN [leads |-> leads, threw |-> FALSE]
    ELSE IF validations[k].kind = "null" THEN [leads |-> leads, threw |-> TRUE]
    ELSE ApplyValidations(ApplyValidation(leads, i, validations[k]), i, validations, k + 1)

KeepUnjudgedByDefault(leads, i) ==
    [k \in DOMAIN leads |->
        IF k \in BatchOf(leads, i) /\ leads[k].is_valid_person = "undefined"
        THEN [leads[k] EXCEPT !.is_valid_person = "true",
                              !.validation_reason = DefaultKeptReason]
        ELSE leads[k]]

\* the catch block (lines 1481-1489)
KeepByDefault(leads, i) ==
    [k \in DOMAIN leads |->
        IF k \in BatchOf(leads, i)
        THEN [leads[k] EXCEPT !.is_valid_person = "true",
                              !.validation_reason = DefaultKeptReason]
        ELSE leads[k]]

\* whether the try block of a batch ends in the catch block
BatchThrows(leads, i, response) ==
    \/ response.kind \in {"callThrows", "parseThrows", "parsedNull"}
    \/ /\ response.kind = "parsed"
       /\ ApplyValidations(leads, i, response.validations, 1).threw

\* the try/catch of one batch (lines 1450-1489)
ValidateBatchLeads(leads, i, response) ==
    IF response.kind \in {"callThrows", "parseThrows", "parsedNull"}
    THEN KeepByDefault(leads, i)
    ELSE IF response.kind = "noValidations" THEN leads
    ELSE LET applied == ApplyValidations(leads, i, response.validations, 1)
         IN  IF applied.threw THEN KeepByDefault(applied.leads, i) ELSE applied.leads

ValidationIndices == {-1, 0, batchSize - 1, batchSize}

ValidationEntries ==
    {[kind |-> "null"]}
    \cup {[kind |-> "entry", index |-> x, is_valid_person |-> "true",
           reason |-> "Real person name"] : x \in ValidationIndices}
    \cup {[kind |-> "entry", index |-> x, is_valid_person |-> "false",
           reason |-> "Company name, not a person"] : x \in ValidationIndices}

\* what the model call of one batch may give: the call throws, the answer is not
\* JSON, it is the JSON null, it has no validations array, or it has one
ValidationResponses ==
    {[kind |-> "callThrows"], [kind |-> "parseThrows"], [kind |-> "parsedNull"],
     [kind |-> "noValidations"]}
    \cup {[kind |-> "parsed", validations |-> v] :
            v \in UNION {[1..n -> ValidationEntries] : n \in 0..MaxValidations}}

NoResponse == [kind |-> "none"]

InitV ==
    /\ \E n \in 0..MaxValidated :
         vLeads = [k \in 1..n |-> [name |-> k, is_valid_person |-> "undefined",
                                   validation_reason |-> "undefined"]]
    /\ vi = 0
    /\ vpc = "loop"
    /\ vResponse = NoResponse
    /\ vLeadsBefore = <<>>
    /\ vCalls = <<>>

IdleV ==
    /\ vLeads = <<>>
    /\ vi = 0
    /\ vpc = "off"
    /\ vResponse = NoResponse
    /\ vLeadsBefore = <<>>
    /\ vCalls = <<>>

\* one iteration of the batch loop (lines 1420-1495)
ValidateBatch ==
    /\ vpc = "loop"
    /\ vi < Len(vLeads)
    /\ \E response \in ValidationResponses :
         /\ vResponse' = response
         /\ vLeads' = ValidateBatchLeads(vLeads, vi, response)
    /\ vLeadsBefore' = vLeads
    /\ vCalls' = Append(vCalls, [offset |-> vi, size |-> Cardinality(BatchOf(vLeads, vi))])
    /\ vi' = vi + batchSize
    /\ UNCHANGED vpc
    /\ UNCHANGED <<varsU, varsD, varsE, varsS, varsC, varsR, varsQ, varsN, varsP>>

\* the loop condition fails: validateLeadsWithLLM returns
ValidateReturn ==
    /\ vpc = "loop"
    /\ vi >= Len(vLeads)
    /\ vpc' = "done"
    /\ UNCHANGED <<vLeads, vi, vResponse, vLeadsBefore, vCalls>>
    /\ UNCHANGED <<varsU, varsD, varsE, varsS, varsC, varsR, varsQ, varsN, varsP>>

NextV == ValidateBatch \/ ValidateReturn

-----------------------------------------------------------------------------
(* Page texts.  A page of tens of thousands of characters is a sequence of  *)
(* runs [c, n]: n characters of class c (page text, an entry label, the     *)
(* join separator, a truncation marker).  Lengths, prefixes and the         *)
(* position of a marker are computed on the runs.                           *)

TextRun(c, n) == [c |-> c, n |-> n]
TextOf(c, n) == IF n = 0 THEN <<>> ELSE <<TextRun(c, n)>>
\* the text of a string literal of the source
Literal(c, chars) == TextOf(c, Len(chars))

RECURSIVE TextLen(_)
\* String.prototype.length
TextLen(t) == IF t = <<>> THEN 0 ELSE t[1].n + TextLen(Tail(t))

RECURSIVE Substring0(_, _)
\* t.substring(0, m)
Substring0(t, m) ==
    IF t = <<>> \/ m <= 0 THEN <<>>
    ELSE IF t[1].n <= m THEN <<t[1]>> \o Substring0(Tail(t), m - t[1].n)
    ELSE <<TextRun(t[1].c, m)>>

RECURSIVE Join(_, _)
\* Array.prototype.join
Join(contents, sep) ==
    IF contents = <<>> THEN <<>>
    ELSE IF Len(contents) = 1 THEN contents[1]
    ELSE contents[1] \o sep \o Join(Tail(contents), sep)

\* t ends with the whole of the marker c
EndsWith(t, c, chars) == t # <<>> /\ t[Len(t)] = TextRun(c, Len(chars))

-----------------------------------------------------------------------------
(* Intelligence summarizer: EnrichNode.generatePersonalitySummary           *)

maxLength == 90000

CombineContentUnmarked(contents) ==
    Substring0(Join(contents, Literal("separator", JoinSeparator)), maxLength)

\* lines 160-166: the content embedded in the prompt
CombineContent(contents) ==
    LET joined == Join(contents, Literal("separator", JoinSeparator))
    IN  IF TextLen(joined) > maxLength
        THEN Substring0(joined, maxLength) \o Literal("contextMarker", MarkerContext)
        ELSE joined

CategoryKeys ==
    {"current_projects", "recent_developments", "strategic_priorities",
     "industry_involvement", "company_context", "competitive_intelligence",
     "outreach_angles", "recent_quotes_or_statements"}

CategoryPlaceholder ==
    [current_projects |-> "No specific current projects identified",
     recent_developments |-> "No recent developments found",
     strategic_priorities |-> "No specific strategic priorities identified",
     industry_involvement |-> "No recent industry involvement found",
     company_context |-> "No specific company context available",
     competitive_intelligence |-> "Limited competitive intelligence available",
     outreach_angles |-> "Standard industry discussion topics",
     recent_quotes_or_statements |-> "No recent quotes or statements found"]

ParsingErrorPlaceholder == "Analysis parsing error - unable to extract information"

\* analysis.intelligence_quality || analysis.confidence_level || "low"
QualityOf(analysis) ==
    IF analysis.intelligence_quality # "absent" THEN analysis.intelligence_quality
    ELSE IF analysis.confidence_level # "absent" THEN analysis.confidence_level
    ELSE "low"

\* lines 213-227: the parsed object, back-filled
StructuredAnalysis(analysis, nSources) ==
    [k \in CategoryKeys |->
        IF k \in analysis.present THEN "from the model" ELSE CategoryPlaceholder[k]]
    @@ [summary |-> IF "summary" \in analysis.present THEN "from the model"
                    ELSE "Professional with limited recent public information available",
        intelligence_quality |-> QualityOf(analysis),
        generated_at |-> "now",
        content_sources |-> nSources,
        analysis_method |-> "competitive_intelligence_extraction"]

rawResponseCap == 500

FallbackWithWholeResponse(nSources, rawContent) ==
    [k \in CategoryKeys |->
        IF k = "outreach_angles" THEN "Standard professional outreach recommended"
        ELSE ParsingErrorPlaceholder]
    @@ [summary |-> "Competitive intelligence analysis could not be completed due to technical error",
        intelligence_quality |-> "low",
        generated_at |-> "now",
        content_sources |-> nSources,
        analysis_method |-> "fallback_error",
        error |-> "JSON parsing failed",
        raw_response |-> rawContent]

\* lines 235-251: the answer rawContent could not be parsed
FallbackAnalysis(nSources, rawContent) ==
    [k \in CategoryKeys |->
        IF k = "outreach_angles" THEN "Standard professional outreach recommended"
        ELSE ParsingErrorPlaceholder]
    @@ [summary |-> "Competitive intelligence analysis could not be completed due to technical error",
        intelligence_quality |-> "low",
        generated_at |-> "now",
        content_sources |-> nSources,
        analysis_method |-> "fallback_error",
        error |-> "JSON parsing failed",
        raw_response |-> Substring0(rawContent, rawResponseCap)]

\* lines 254-261: the outer catch
ErrorAnalysis(message) ==
    [error |-> message,
     summary |-> "Unable to extract competitive intelligence due to processing error",
     intelligence_quality |-> "low",
     generated_at |-> "now"]

\* The value generatePersonalitySummary returns for an answer of the model:
\*   callThrows   the request throws
\*   contentNull  message.content is null: JSON.parse(null) gives null, reading a
\*                property of it throws inside the inner try, and rawContent.substring
\*                throws again inside the inner catch, so the outer catch answers
\*   notJson      JSON.parse throws on the length characters of the answer
\*   jsonNull     the answer is the JSON null: reading a property of it throws
\*   object       a JSON object with some of the keys
generatePersonalitySummary(contents, response) ==
    IF response.kind = "callThrows" THEN ErrorAnalysis("Request failed")
    ELSE IF response.kind = "contentNull"
    THEN ErrorAnalysis("Cannot read properties of null (reading 'substring')")
    ELSE IF response.kind = "notJson"
    THEN FallbackAnalysis(Len(contents), TextOf("answer", response.length))
    ELSE IF response.kind = "jsonNull"
    THEN FallbackAnalysis(Len(contents), Literal("answer", TxtNull))
    ELSE StructuredAnalysis(response, Len(contents))

-----------------------------------------------------------------------------
(* Source selection and scraping: EnrichNode.enrichLeadWithPersonalityAnalysis *)

substantialLength == 100
sourceCap == 50000
scrapeTop == 3
enrichTop == 10

Absent == [absent |-> TRUE]

AnalysedInThisRun(lead) ==
    /\ lead.personality_analysis # Absent
    /\ "error" \notin DOMAIN lead.personality_analysis
    /\ lead.personality_analysis.generated_at = "now"

\* stored content taken for none
StoredContentIgnored(lead) == FALSE

\* lines 289-292 and 309: scraped_content is an array with something in it
HasStoredContent(lead) == lead.scraped_content # <<>>

\* lead.personality_analysis && !lead.personality_analysis.error
HasSuccessfulAnalysis(lead) ==
    lead.personality_analysis # Absent /\ "error" \notin DOMAIN lead.personality_analysis

\* result.url.includes('linkedin.com')
IsLinkedIn(result) == Includes(result.url, PatLinkedinCom)

\* the filter of lines 331-338 without its tests on login and sign-up paths
IsNotLinkedIn(result) == ~Includes(result.url, PatLinkedinCom)

\* lines 331-338
IsScrapeable(result) ==
    /\ ~Includes(result.url, PatLinkedinCom)
    /\ ~Includes(result.url, PatLogin)
    /\ ~Includes(result.url, PatSignup)
    /\ ~Includes(result.url, PatAuth)
    /\ ~Includes(result.url, PatSignIn)

\* s.slice(from, to), 0-based, end excluded
Slice(s, from, to) == SubSeq(s, from + 1, IF to < Len(s) THEN to ELSE Len(s))

IsSubstantialFrom100(content) == TextLen(content) >= substantialLength

\* content && content.length > 100
IsSubstantial(content) == TextLen(content) > substantialLength

\* line 356
TruncatedContent(content) ==
    IF TextLen(content) > sourceCap
    THEN Substring0(content, sourceCap) \o Literal("truncated", MarkerTruncated)
    ELSE content

\* line 357: `Source: ${url}\nTitle: ${title || 'N/A'}\nContent: ${truncatedContent}`
ContentEntry(website, content) ==
    Literal("label", LblSource \o website.url \o LblTitle
                     \o (IF website.title # <<>> THEN website.title ELSE TxtNA) \o LblContent)
    \o TruncatedContent(content)

\* lines 354-361: the contents after one fetched page
AfterFetch(contents, website, content) ==
    IF IsSubstantial(content) THEN Append(contents, ContentEntry(website, content))
    ELSE contents

\* lines 317-323
NoSearchResultsLead(lead) ==
    [lead EXCEPT !.personality_analysis =
        [error |-> "No search results found", analyzed_at |-> "now"]]

\* the no-content return carrying the error only
NoContentLeadErrorOnly(lead, nLinkedIn, nAttempted) ==
    [lead EXCEPT
        !.personality_analysis =
            [error |-> "No substantial content found for analysis (LinkedIn excluded)",
             analyzed_at |-> "now", analysis_method |-> "failed"]]

\* lines 393-409
NoContentLead(lead, nLinkedIn, nAttempted) ==
    [lead EXCEPT
        !.personality_analysis =
            [error |-> "No substantial content found for analysis (LinkedIn excluded)",
             analyzed_at |-> "now", analysis_method |-> "failed"],
        !.personality_metadata =
            [analysis_completed |-> FALSE, ai_analysis_success |-> FALSE,
             processing_timestamp |-> "now",
             error |-> "No scrapeable non-LinkedIn content found",
             linkedin_urls_found |-> nLinkedIn,
             non_linkedin_sites_attempted |-> nAttempted],
        !.ready_for_outreach = "false"]

\* a field of an object that may lack it
Field(object, key) == IF key \in DOMAIN object THEN object[key] ELSE "undefined"

\* line 452: !personalityAnalysis.error && personalityAnalysis.confidence_level !== 'low'
ReadyForOutreach(analysis) ==
    IF "error" \notin DOMAIN analysis /\ Field(analysis, "confidence_level") # "low"
    THEN "true" ELSE "false"

SourceEntry(w, scraped, type) ==
    [url |-> w.url, title |-> w.title, scraped_successfully |-> scraped, type |-> type,
     timestamp |-> "now"]

\* lines 416-454
EnrichedLead(lead, analysis, linkedin, toScrape, contents) ==
    [lead EXCEPT
        !.personality_analysis = analysis,
        !.personality_sources =
            [k \in 1..Len(Slice(linkedin, 0, 1)) |->
                SourceEntry(linkedin[k], FALSE, "linkedin_reference")]
            \o [k \in 1..Len(toScrape) |-> SourceEntry(toScrape[k], TRUE, "scraped_content")],
        !.last_personality_analysis = "now",
        !.personality_metadata =
            [analysis_completed |-> TRUE,
             linkedin_urls_found |-> Len(linkedin),
             linkedin_urls_kept_for_reference |-> IF Len(linkedin) < 1 THEN Len(linkedin) ELSE 1,
             non_linkedin_sites_attempted |-> Len(toScrape),
             content_sources_used |-> Len(contents),
             ai_analysis_success |-> "error" \notin DOMAIN analysis,
             processing_timestamp |-> "now",
             analysis_method |-> IF "analysis_method" \in DOMAIN analysis
                                 THEN analysis.analysis_method ELSE "web_scraping_chatgpt",
             scraping_strategy |-> "exclude_linkedin"],
        !.ready_for_outreach = ReadyForOutreach(analysis)]

\* lead.confidence_score || 0
ScoreOf(lead) ==
    IF "confidence_score" \in DOMAIN lead THEN lead.confidence_score ELSE 0

RECURSIVE SortByConfidence(_, _)
\* the positions idxs of leads in descending confidence_score, ties in stored order
\* (Array.prototype.sort is stable)
SortByConfidence(leads, idxs) ==
    IF idxs = {} THEN <<>>
    ELSE LET best == CHOOSE i \in idxs : \A j \in idxs :
                        \/ ScoreOf(leads[i]) > ScoreOf(leads[j])
                        \/ /\ ScoreOf(leads[i]) = ScoreOf(leads[j])
                           /\ i <= j
         IN  <<best>> \o (CHOOSE sorted \in {SortByConfidence(leads, rest) :
                                                rest \in {idxs \ {best}}} : TRUE)

RECURSIVE InStoredOrder(_)
\* the positions idxs in ascending order
InStoredOrder(idxs) ==
    IF idxs = {} THEN <<>>
    ELSE LET first == CHOOSE i \in idxs : \A j \in idxs : i <= j
         IN  <<first>> \o InStoredOrder(idxs \ {first})

\* the selection with the cap applied before the sort
LeadsToEnrichCappedFirst(leads) ==
    LET kept == Slice(InStoredOrder({i \in DOMAIN leads : ~HasSuccessfulAnalysis(leads[i])}),
                      0, enrichTop)
    IN  SortByConfidence(leads, {kept[k] : k \in DOMAIN kept})

\* lines 514-517: the positions of the leads to enrich
LeadsToEnrich(leads) ==
    Slice(SortByConfidence(leads, {i \in DOMAIN leads : ~HasSuccessfulAnalysis(leads[i])}),
          0, enrichTop)

-----------------------------------------------------------------------------
(* Clean data for integration: EnrichNode.getPersonalityDataForIntegration *)

NoData == [status |-> "none"]

\* the values JavaScript takes for false in a test or on the left of ||
Falsy == {"undefined", "null", "", "false"}

\* value || fallback
OrElse(value, fallback) == IF value \in Falsy THEN fallback ELSE value

\* []
EmptyList == "empty list"

\* lead.personality_analysis, undefined for a lead without the field
AnalysisOf(lead) ==
    IF "personality_analysis" \in DOMAIN lead THEN lead.personality_analysis ELSE Absent

\* the output field of each list of competitive_intelligence and the field of the
\* analysis it is read from (lines 763-770)
IntegrationListSource ==
    [current_projects |-> "current_projects",
     recent_developments |-> "recent_developments",
     strategic_priorities |-> "strategic_priorities",
     industry_involvement |-> "industry_involvement",
     company_context |-> "company_context",
     competitive_insights |-> "competitive_intelligence",
     outreach_angles |-> "outreach_angles",
     recent_quotes |-> "recent_quotes_or_statements"]

\* lines 760-785, with the value given to metadata.ready_for_outreach
CompleteData(lead, analysis, ready) ==
    [status |-> "analysis_complete",
     competitive_intelligence |->
        [f \in DOMAIN IntegrationListSource |->
            OrElse(Field(analysis, IntegrationListSource[f]), EmptyList)]
        @@ [summary |-> OrElse(Field(analysis, "summary"), ""),
            intelligence_quality |->
                OrElse(Field(analysis, "intelligence_quality"),
                       OrElse(Field(analysis, "confidence_level"), "medium"))],
     personality |->
        [traits |-> OrElse(Field(analysis, "personality_traits"),
                           OrElse(Field(analysis, "current_projects"), EmptyList)),
         communication |-> OrElse(Field(analysis, "communication_style"),
                                  OrElse(Field(analysis, "summary"), "")),
         leadership |-> OrElse(Field(analysis, "leadership_approach"), ""),
         expertise |-> OrElse(Field(analysis, "technical_expertise"), EmptyList),
         values |-> OrElse(Field(analysis, "values_and_motivations"), EmptyList),
         decision_making |-> OrElse(Field(analysis, "decision_making"), ""),
         networking |-> OrElse(Field(analysis, "networking_style"), ""),
         summary |-> OrElse(Field(analysis, "summary"), ""),
         confidence |->
             OrElse(Field(analysis, "confidence_level"),
                    OrElse(Field(analysis, "intelligence_quality"), "medium"))],
     metadata |->
        [sources_used |-> IF "content_sources" \in DOMAIN analysis
                          THEN analysis.content_sources ELSE 0,
         analysis_method |-> OrElse(Field(analysis, "analysis_method"),
                                    "competitive_intelligence_extraction"),
         generated_at |-> OrElse(Field(analysis, "generated_at"), "now"),
         ready_for_outreach |-> ready],
     personality_sources |->
        IF "personality_sources" \in DOMAIN lead THEN lead.personality_sources ELSE <<>>]

\* the function with line 782 passing lead.ready_for_outreach through as it is
IntegrationDataPassingFlag(lead) ==
    IF AnalysisOf(lead) = Absent
    THEN [status |-> "no_analysis", message |-> "Personality analysis not available"]
    ELSE IF Field(AnalysisOf(lead), "error") \notin Falsy
    THEN [status |-> "analysis_failed",
          error |-> AnalysisOf(lead).error,
          timestamp |-> OrElse(Field(AnalysisOf(lead), "analyzed_at"), "now")]
    ELSE CompleteData(lead, AnalysisOf(lead), Field(lead, "ready_for_outreach"))

\* lines 734-786
getPersonalityDataForIntegration(lead) ==
    IF AnalysisOf(lead) = Absent
    THEN [status |-> "no_analysis", message |-> "Personality analysis not available"]
    ELSE IF Field(AnalysisOf(lead), "error") \notin Falsy
    THEN [status |-> "analysis_failed",
          error |-> AnalysisOf(lead).error,
          timestamp |-> OrElse(Field(AnalysisOf(lead), "analyzed_at"), "now")]
    ELSE CompleteData(lead, AnalysisOf(lead),
                      OrElse(Field(lead, "ready_for_outreach"), "false"))

-----------------------------------------------------------------------------
(* Enrichment orchestrator: EnrichNode.run, enrichLeadsWithPersonalityData, *)
(* enrichLeadWithPersonalityAnalysis, one action per awaited provider call  *)

MaxStateLeads == 2
\* invocations of run or of enrichLeadWithPersonalityAnalysis in one behaviour
MaxInvocations == 2

Website(url, title) == [url |-> url, title |-> title]

\* a batch long enough for the cap of line 517 to matter
Long == Len(stored) >= enrichTop

\* one stored lead examined in detail by the first invocation; coarser providers
\* for later invocations and for several leads
Detailed == Len(stored) = 1 /\ invocations = 1

\* what searchPersonWithJina may return (lines 47-101): no result, or results whose
\* url starts with http
SearchResultLists ==
    (IF Long THEN {} ELSE {<<>>})
    \cup (IF Detailed
          THEN {<<Website(UrlAcmeTeam, TitleJaneCEO), Website(UrlBlogJane, TitleJaneCEO)>>,
                <<Website(UrlLinkedinJane, TitleJaneCEO)>>,
                <<Website(UrlNewsArticle, <<>>)>>,
                <<Website(UrlAcmeTeam, TitleJaneCEO), Website(UrlBlogJane, TitleJaneCEO),
                  Website(UrlNewsArticle, TitleJaneCEO), Website(UrlPressJane, TitleJaneCEO)>>,
                <<Website(UrlLinkedinJane, TitleJaneCEO), Website(UrlAcmeTeam, TitleJaneCEO),
                  Website(UrlAcmeLogin, TitleJaneCEO), Website(UrlBlogJane, TitleJaneCEO),
                  Website(UrlNewsArticle, TitleJaneCEO), Website(UrlPressJane, TitleJaneCEO),
                  Website(UrlForumPost, TitleJaneCEO), Website(UrlWwwLinkedinJd, TitleJaneCEO)>>}
          ELSE {<<Website(UrlLinkedinJane, TitleJaneCEO), Website(UrlAcmeTeam, TitleJaneCEO)>>})

\* the lengths of the page jinaSearch.readWebsite may return ('' when its request
\* fails); a page too short and a good one for two stored leads, a good one only
\* for more
PageLengths ==
    IF Detailed /\ Len(nonLinkedInWebsites) <= scrapeTop
    THEN {0, 40, substantialLength, substantialLength + 1, 5000, sourceCap, sourceCap + 1}
    ELSE IF Detailed THEN {0, 5000, sourceCap + 1}
    ELSE IF Len(stored) <= 2 THEN {40, 5000}
    ELSE {5000}

\* What the two requests of getWebsiteContent may do: readWebsite throws when the
\* key is not configured (llm-enricher.js 618-620) or returns a page, '' after a
\* failed request; after '' the direct request of line 121 throws or returns a page
\* (of 5000 characters here).
FetchOutcomes ==
    (IF Len(stored) <= 2 THEN {[reader |-> "throws", length |-> 0, direct |-> "unused"]}
     ELSE {})
    \cup {[reader |-> "returns", length |-> n, direct |-> d] :
              n \in PageLengths \ {0}, d \in {"unused"}}
    \cup {[reader |-> "returns", length |-> n, direct |-> d] :
              n \in PageLengths \cap {0}, d \in {"throws", "returns"}}

\* getWebsiteContent without its catch: a throw of the reader or of the direct
\* request reaches the caller
getWebsiteContentUncaught(outcome) ==
    IF outcome.reader = "throws" THEN [threw |-> TRUE, content |-> <<>>]
    ELSE IF outcome.length > 0 THEN [threw |-> FALSE, content |-> TextOf("page", outcome.length)]
    ELSE IF outcome.direct = "throws" THEN [threw |-> TRUE, content |-> <<>>]
    ELSE [threw |-> FALSE, content |-> TextOf("page", 5000)]

\* lines 108-148: what getWebsiteContent gives its caller
getWebsiteContent(outcome) ==
    IF outcome.reader = "throws" THEN [threw |-> FALSE, content |-> <<>>]
    ELSE IF outcome.length > 0 THEN [threw |-> FALSE, content |-> TextOf("page", outcome.length)]
    ELSE IF outcome.direct = "throws" THEN [threw |-> FALSE, content |-> <<>>]
    ELSE [threw |-> FALSE, content |-> TextOf("page", 5000)]

\* lines 352-366: the page went through the test of line 354, or the catch of line
\* 364 took the exception
FetchLogEntry(website, outcome, fetched) ==
    [website |-> website, length |-> TextLen(fetched.content), outcome |-> outcome,
     threw |-> fetched.threw]

AllKeys == CategoryKeys \cup {"summary"}

SummaryObject(present, quality, confidence) ==
    [kind |-> "object", present |-> present, intelligence_quality |-> quality,
     confidence_level |-> confidence]

\* what the summarization request may give
SummaryResponses ==
    IF Detailed
    THEN {[kind |-> "callThrows"], [kind |-> "contentNull"], [kind |-> "jsonNull"]}
         \cup {[kind |-> "notJson", length |-> n] :
                  n \in {0, 200, rawResponseCap, rawResponseCap + 1}}
         \cup {SummaryObject(p, q, c) :
                  p \in {AllKeys, {}, AllKeys \ {"current_projects"}},
                  q \in {"absent", "high", "medium", "low"},
                  c \in {"absent", "low"}}
    ELSE IF Len(stored) > 2 THEN {SummaryObject(AllKeys, "high", "absent")}
    ELSE {[kind |-> "callThrows"], SummaryObject(AllKeys, "high", "absent")}

\* scraped_content and personality_sources are arrays, a missing one is the empty
\* array: line 289 reads scraped_content only through a test that takes both alike
NewLead(name, score) ==
    [name |-> name, confidence_score |-> score, personality_analysis |-> Absent,
     scraped_content |-> <<>>, personality_sources |-> <<>>,
     personality_metadata |-> Absent, last_personality_analysis |-> "undefined",
     ready_for_outreach |-> "undefined"]

\* a lead enriched by an earlier run
DoneLead(name, score) ==
    [NewLead(name, score) EXCEPT
        !.personality_analysis =
            [StructuredAnalysis(SummaryObject(AllKeys, "high", "absent"), 2)
                EXCEPT !.generated_at = "earlier"],
        !.last_personality_analysis = "earlier",
        !.ready_for_outreach = "true"]

\* a lead an earlier run failed on
FailedLead(name, score) ==
    [NewLead(name, score) EXCEPT
        !.personality_analysis = [error |-> "No search results found", analyzed_at |-> "earlier"]]

\* contents scraped in an earlier step
ReusedContents ==
    {<<TextOf("page", 200)>>,
     <<TextOf("page", maxLength)>>,
     <<TextOf("page", maxLength + 1)>>,
     <<TextOf("page", 60000), TextOf("page", 60000)>>}

StoredLeadsOf(n) ==
    IF n = 1
    THEN {<<l>> : l \in {NewLead(1, 80), DoneLead(1, 80), FailedLead(1, 80),
                         [FailedLead(1, 80) EXCEPT !.scraped_content = <<TextOf("page", 200)>>]}
                        \cup {[NewLead(1, 80) EXCEPT !.scraped_content = c] : c \in ReusedContents}}
    ELSE {[k \in 1..n |-> IF kind[k] = "new" THEN NewLead(k, score[k])
                          ELSE IF kind[k] = "done" THEN DoneLead(k, score[k])
                          ELSE FailedLead(k, score[k])] :
            kind \in [1..n -> {"new", "done", "failed"}], score \in [1..n -> {50, 90}]}

\* a lead of the search step that carries no confidence_score
Unscored(lead) == [f \in DOMAIN lead \ {"confidence_score"} |-> lead[f]]

\* Batches of more leads than one run takes: equal scores throughout; the best
\* lead stored last and the worst first; one lead without a score among equals;
\* and twelve leads of mixed scores with one already analysed.
LongBatches ==
    {[k \in 1..(enrichTop + 1) |-> NewLead(k, 80)],
     [k \in 1..(enrichTop + 1) |->
         NewLead(k, IF k = 1 THEN 50 ELSE IF k = enrichTop + 1 THEN 90 ELSE 80)],
     [k \in 1..(enrichTop + 1) |->
         IF k = 3 THEN Unscored(NewLead(k, 0)) ELSE NewLead(k, IF k = 5 THEN 90 ELSE 80)],
     [k \in 1..(enrichTop + 2) |->
         IF k = 2 THEN DoneLead(k, 95) ELSE NewLead(k, 70 + (k % 3))]}

\* leads handed to getPersonalityDataForIntegration besides those of the state:
\* the empty object and the failed lead of test-json-integration.js (scenarios 2
\* and 3), and a lead analysed by an earlier version whose analysis has none of
\* the category lists
IntegrationInputs ==
    {[name |-> 9],
     [name |-> 9,
      personality_analysis |-> [error |-> "API limit exceeded", analyzed_at |-> "earlier"]],
     [name |-> 9,
      personality_analysis |-> [summary |-> "from the model", confidence_level |-> "high"]],
     [name |-> 9,
      personality_analysis |-> [summary |-> "from the model", outreach_angles |-> "from the model"],
      ready_for_outreach |-> "true"]}

InitE ==
    /\ stored \in UNION {StoredLeadsOf(n) : n \in 1..MaxStateLeads} \cup LongBatches
    /\ stateLeads = stored
    /\ epc = "idle"
    /\ caller = "none"
    /\ leadsToEnrich = <<>>
    /\ ei = 1
    /\ leadArg = Absent
    /\ websiteContents = <<>>
    /\ linkedinUrls = <<>>
    /\ nonLinkedInWebsites = <<>>
    /\ websitesToScrape = <<>>
    /\ si = 1
    /\ fetchLog = <<>>
    /\ combinedContent = <<>>
    /\ personalityAnalysis = Absent
    /\ enrichedLead = Absent
    /\ calls = NoCalls
    /\ invocations = 0
    /\ summaryResponse = NoResponse
    /\ integrationLead = Absent
    /\ integrationData = NoData

IdleE ==
    /\ stored = <<>>
    /\ stateLeads = <<>>
    /\ epc = "off"
    /\ caller = "none"
    /\ leadsToEnrich = <<>>
    /\ ei = 1
    /\ leadArg = Absent
    /\ websiteContents = <<>>
    /\ linkedinUrls = <<>>
    /\ nonLinkedInWebsites = <<>>
    /\ websitesToScrape = <<>>
    /\ si = 1
    /\ fetchLog = <<>>
    /\ combinedContent = <<>>
    /\ personalityAnalysis = Absent
    /\ enrichedLead = Absent
    /\ calls = NoCalls
    /\ invocations = 0
    /\ summaryResponse = NoResponse
    /\ integrationLead = Absent
    /\ integrationData = NoData

\* the locals of enrichLeadWithPersonalityAnalysis go with the call
ClearLocals ==
    /\ websiteContents' = <<>>
    /\ linkedinUrls' = <<>>
    /\ nonLinkedInWebsites' = <<>>
    /\ websitesToScrape' = <<>>
    /\ si' = 1
    /\ fetchLog' = <<>>
    /\ combinedContent' = <<>>

\* the loop going on to the next lead with the result of this one not merged yet
ReturnBeforeMerge(enriched) ==
    /\ enrichedLead' = enriched
    /\ ClearLocals
    /\ IF caller = "run"
       THEN /\ IF ei < Len(leadsToEnrich)
               THEN /\ ei' = ei + 1
                    /\ leadArg' = stateLeads[leadsToEnrich[ei + 1]]
                    /\ epc' = "lead"
                    /\ UNCHANGED stateLeads
               ELSE /\ epc' = "save"
                    /\ stateLeads' = [stateLeads EXCEPT ![leadsToEnrich[ei]] = enriched]
                    /\ UNCHANGED <<ei, leadArg>>
       ELSE /\ epc' = "idle"
            /\ UNCHANGED <<stateLeads, ei, leadArg>>

\* enrichLeadWithPersonalityAnalysis returns enriched. Called from the loop of
\* enrichLeadsWithPersonalityData (lines 567-616), Object.assign merges it into the
\* lead and the loop goes to the next lead, or to saveEnrichedLeads after the last.
ReturnEnriched(enriched) ==
    /\ enrichedLead' = enriched
    /\ ClearLocals
    /\ IF caller = "run"
       THEN /\ stateLeads' = [stateLeads EXCEPT ![leadsToEnrich[ei]] = enriched]
            /\ IF ei < Len(leadsToEnrich)
               THEN /\ ei' = ei + 1
                    /\ leadArg' = stateLeads[leadsToEnrich[ei + 1]]
                    /\ epc' = "lead"
               ELSE /\ epc' = "save"
                    /\ UNCHANGED <<ei, leadArg>>
       ELSE /\ epc' = "idle"
            /\ UNCHANGED <<stateLeads, ei, leadArg>>

\* EnrichNode.run, lines 482-534: load the state, select the leads to enrich,
\* return the next message at once when there is none
RunStart ==
    /\ epc = "idle"
    /\ invocations < MaxInvocations
    /\ invocations' = invocations + 1
    /\ caller' = "run"
    /\ stateLeads' = stored
    /\ leadsToEnrich' = LeadsToEnrich(stored)
    /\ ei' = 1
    /\ calls' = NoCalls
    /\ enrichedLead' = Absent
    /\ personalityAnalysis' = Absent
    /\ summaryResponse' = NoResponse
    /\ IF LeadsToEnrich(stored) = <<>>
       THEN epc' = "idle" /\ leadArg' = Absent
       ELSE epc' = "lead" /\ leadArg' = stored[LeadsToEnrich(stored)[1]]
    /\ UNCHANGED <<stored, websiteContents, linkedinUrls, nonLinkedInWebsites,
                   websitesToScrape, si, fetchLog, combinedContent>>
    /\ integrationLead' = Absent
    /\ integrationData' = NoData
    /\ UNCHANGED <<varsU, varsD, varsV, varsS, varsC, varsR, varsQ, varsN, varsP>>

\* enrichLeadWithPersonalityAnalysis called on one lead by integration code
DirectCall ==
    /\ epc = "idle"
    /\ invocations < MaxInvocations
    /\ invocations' = invocations + 1
    /\ \E k \in DOMAIN stored : leadArg' = stored[k]
    /\ caller' = "direct"
    /\ epc' = "lead"
    /\ leadsToEnrich' = <<>>
    /\ ei' = 1
    /\ calls' = NoCalls
    /\ enrichedLead' = Absent
    /\ personalityAnalysis' = Absent
    /\ summaryResponse' = NoResponse
    /\ UNCHANGED <<stored, stateLeads, websiteContents, linkedinUrls, nonLinkedInWebsites,
                   websitesToScrape, si, fetchLog, combinedContent>>
    /\ integrationLead' = Absent
    /\ integrationData' = NoData
    /\ UNCHANGED <<varsU, varsD, varsV, varsS, varsC, varsR, varsQ, varsN, varsP>>

\* lines 270-347: skip a lead already analysed, reuse stored content, or search
EnrichEnter ==
    /\ epc = "lead"
    /\ personalityAnalysis' = Absent
    /\ summaryResponse' = NoResponse
    /\ IF HasSuccessfulAnalysis(leadArg)
       THEN /\ ReturnEnriched(leadArg)
            /\ UNCHANGED calls
       ELSE IF HasStoredContent(leadArg)
       THEN /\ websiteContents' = leadArg.scraped_content
            /\ epc' = "summarize"
            /\ linkedinUrls' = <<>>
            /\ nonLinkedInWebsites' = <<>>
            /\ websitesToScrape' = <<>>
            /\ si' = 1
            /\ fetchLog' = <<>>
            /\ combinedContent' = <<>>
            /\ UNCHANGED <<calls, enrichedLead, stateLeads, ei, leadArg>>
       ELSE \E searchResults \in SearchResultLists :
            /\ calls' = [calls EXCEPT !.search = @ + 1]
            /\ IF searchResults = <<>>
               THEN ReturnEnriched(NoSearchResultsLead(leadArg))
               ELSE /\ linkedinUrls' = SelectSeq(searchResults, IsLinkedIn)
                    /\ nonLinkedInWebsites' = SelectSeq(searchResults, IsScrapeable)
                    /\ websitesToScrape' =
                           Slice(SelectSeq(searchResults, IsScrapeable), 0, scrapeTop)
                    /\ websiteContents' = <<>>
                    /\ si' = 1
                    /\ fetchLog' = <<>>
                    /\ combinedContent' = <<>>
                    /\ epc' = IF SelectSeq(searchResults, IsScrapeable) = <<>>
                              THEN "summarize" ELSE "scrape"
                    /\ UNCHANGED <<enrichedLead, stateLeads, ei, leadArg>>
    /\ UNCHANGED <<stored, caller, leadsToEnrich, invocations>>
    /\ UNCHANGED <<integrationLead, integrationData>>
    /\ UNCHANGED <<varsU, varsD, varsV, varsS, varsC, varsR, varsQ, varsN, varsP>>

\* the retry taken only when the first pass gave nothing at all
RetryOnlyWhenEmpty(contents, candidates) ==
    Len(contents) < 1 /\ Len(candidates) > scrapeTop

\* line 371: websiteContents.length < 2 && nonLinkedInWebsites.length > 3
NeedsAdditionalSites(contents, candidates) ==
    Len(contents) < 2 /\ Len(candidates) > scrapeTop

\* lines 350-372: fetch one of the top sites; after the last, decide on the retry
ScrapeSite ==
    /\ epc = "scrape"
    /\ \E outcome \in FetchOutcomes :
         LET website == websitesToScrape[si]
             fetched == getWebsiteContent(outcome)
             contents == IF fetched.threw THEN websiteContents
                         ELSE AfterFetch(websiteContents, website, fetched.content)
         IN  /\ websiteContents' = contents
             /\ fetchLog' = Append(fetchLog, FetchLogEntry(website, outcome, fetched))
             /\ IF si < Len(websitesToScrape)
                THEN si' = si + 1 /\ epc' = "scrape"
                ELSE IF NeedsAdditionalSites(contents, nonLinkedInWebsites)
                THEN si' = 1 /\ epc' = "additional"
                ELSE si' = si /\ epc' = "summarize"
    /\ calls' = [calls EXCEPT !.fetch = @ + 1]
    /\ UNCHANGED <<stored, stateLeads, caller, leadsToEnrich, ei, leadArg, linkedinUrls,
                   nonLinkedInWebsites, websitesToScrape, combinedContent,
                   personalityAnalysis, summaryResponse, enrichedLead, invocations>>
    /\ UNCHANGED <<integrationLead, integrationData>>
    /\ UNCHANGED <<varsU, varsD, varsV, varsS, varsC, varsR, varsQ, varsN, varsP>>

\* lines 374-388: fetch one of the next two sites, stopping at the first good one
AdditionalSite ==
    /\ epc = "additional"
    /\ \E outcome \in FetchOutcomes :
         LET additionalSites == Slice(nonLinkedInWebsites, scrapeTop, scrapeTop + 2)
             website == additionalSites[si]
             fetched == getWebsiteContent(outcome)
             content == fetched.content
         IN  /\ websiteContents' = IF fetched.threw THEN websiteContents
                                   ELSE AfterFetch(websiteContents, website, content)
             /\ fetchLog' = Append(fetchLog, FetchLogEntry(website, outcome, fetched))
             /\ IF (~fetched.threw /\ IsSubstantial(content)) \/ si >= Len(additionalSites)
                THEN si' = si /\ epc' = "summarize"
                ELSE si' = si + 1 /\ epc' = "additional"
    /\ calls' = [calls EXCEPT !.fetch = @ + 1]
    /\ UNCHANGED <<stored, stateLeads, caller, leadsToEnrich, ei, leadArg, linkedinUrls,
                   nonLinkedInWebsites, websitesToScrape, combinedContent,
                   personalityAnalysis, summaryResponse, enrichedLead, invocations>>
    /\ UNCHANGED <<integrationLead, integrationData>>
    /\ UNCHANGED <<varsU, varsD, varsV, varsS, varsC, varsR, varsQ, varsN, varsP>>

\* lines 391-410 and 155-203: fail on no content, or build the prompt and send it
SendSummaryRequest ==
    /\ epc = "summarize"
    /\ IF websiteContents = <<>>
       THEN /\ ReturnEnriched(NoContentLead(leadArg, Len(linkedinUrls), Len(websitesToScrape)))
            /\ UNCHANGED calls
       ELSE /\ combinedContent' = CombineContent(websiteContents)
            /\ calls' = [calls EXCEPT !.llm = @ + 1]
            /\ epc' = "llm"
            /\ UNCHANGED <<stateLeads, ei, leadArg, websiteContents, linkedinUrls,
                           nonLinkedInWebsites, websitesToScrape, si, fetchLog, enrichedLead>>
    /\ UNCHANGED <<stored, caller, leadsToEnrich, personalityAnalysis, summaryResponse, invocations>>
    /\ UNCHANGED <<integrationLead, integrationData>>
    /\ UNCHANGED <<varsU, varsD, varsV, varsS, varsC, varsR, varsQ, varsN, varsP>>

\* lines 205-262 and 413-454: the answer of the model, the analysis, the enriched lead
SummaryAnswer ==
    /\ epc = "llm"
    /\ \E response \in SummaryResponses :
         LET analysis == generatePersonalitySummary(websiteContents, response)
         IN  /\ personalityAnalysis' = analysis
             /\ summaryResponse' = response
             /\ ReturnEnriched(EnrichedLead(leadArg, analysis, linkedinUrls, websitesToScrape,
                                            websiteContents))
    /\ UNCHANGED <<stored, caller, leadsToEnrich, calls, invocations>>
    /\ UNCHANGED <<integrationLead, integrationData>>
    /\ UNCHANGED <<varsU, varsD, varsV, varsS, varsC, varsR, varsQ, varsN, varsP>>

\* lines 537-547: saveEnrichedLeads writes state.json
RunSave ==
    /\ epc = "save"
    /\ stored' = stateLeads
    /\ epc' = "idle"
    /\ UNCHANGED <<stateLeads, caller, leadsToEnrich, ei, leadArg, websiteContents,
                   linkedinUrls, nonLinkedInWebsites, websitesToScrape, si, fetchLog,
                   combinedContent, personalityAnalysis, summaryResponse, enrichedLead, calls, invocations>>
    /\ UNCHANGED <<integrationLead, integrationData>>
    /\ UNCHANGED <<varsU, varsD, varsV, varsS, varsC, varsR, varsQ, varsN, varsP>>

\* The process exits while a batch or a call is under way (a kill, a power cut, an
\* exception nobody catches). state.leads and every local live in memory only and
\* are lost; state.json keeps what the last writeJson put there, and the next
\* invocation loads it (line 491).
ProcessExit ==
    /\ epc \in {"lead", "scrape", "additional", "summarize", "llm", "save"}
    /\ epc' = "idle"
    /\ caller' = "exited"
    /\ stateLeads' = stored
    /\ leadsToEnrich' = <<>>
    /\ ei' = 1
    /\ leadArg' = Absent
    /\ ClearLocals
    /\ personalityAnalysis' = Absent
    /\ summaryResponse' = NoResponse
    /\ enrichedLead' = Absent
    /\ calls' = NoCalls
    /\ UNCHANGED <<stored, invocations>>
    /\ UNCHANGED <<integrationLead, integrationData>>
    /\ UNCHANGED <<varsU, varsD, varsV, varsS, varsC, varsR, varsQ, varsN, varsP>>

\* integration code asks for the clean data of a lead of the state or of the lead
\* a call just returned, or, before anything ran, of a lead of its own
GetIntegrationData ==
    /\ epc = "idle"
    /\ \E lead \in (IF caller = "none" THEN IntegrationInputs ELSE {})
                    \cup {stateLeads[k] : k \in DOMAIN stateLeads}
                    \cup (IF enrichedLead = Absent THEN {} ELSE {enrichedLead}) :
         /\ integrationLead' = lead
         /\ integrationData' = getPersonalityDataForIntegration(lead)
    /\ UNCHANGED <<stored, stateLeads, epc, caller, leadsToEnrich, ei, leadArg,
                   websiteContents, linkedinUrls, nonLinkedInWebsites, websitesToScrape, si,
                   fetchLog, combinedContent, personalityAnalysis, summaryResponse,
                   enrichedLead, calls, invocations>>
    /\ UNCHANGED <<varsU, varsD, varsV, varsS, varsC, varsR, varsQ, varsN, varsP>>

NextE ==
    \/ RunStart
    \/ DirectCall
    \/ EnrichEnter
    \/ ScrapeSite
    \/ AdditionalSite
    \/ SendSummaryRequest
    \/ SummaryAnswer
    \/ RunSave
    \/ ProcessExit
    \/ GetIntegrationData

-----------------------------------------------------------------------------
(* Person search with query variants: EnrichNode.searchPersonWithJina *)

\* "Jane Doe"
NameJane == <<"J","a","n","e"," ","D","o","e">>
\* "Bo"
NameBo == <<"B","o">>
\* " LinkedIn"
TxtSpaceLinkedIn == <<" ","L","i","n","k","e","d","I","n">>
\* "https://search-result-"
UrlSearchResult ==
    <<"h","t","t","p","s",":","/","/","s","e","a","r","c","h","-","r","e","s","u","l","t","-">>
\* "search-result-"
PatSearchResult == <<"s","e","a","r","c","h","-","r","e","s","u","l","t","-">>
\* "linkedin.com/in/jd"
UrlNoScheme == <<"l","i","n","k","e","d","i","n",".","c","o","m","/","i","n","/","j","d">>
\* the digits of Date.now()
TxtNow == <<"1","7">>

\* the queries tried in the opposite order
searchApproachesReversed(name, company) ==
    <<name,
      <<"\"">> \o name \o <<"\"", " ">> \o TemplateString(company),
      name \o TxtSpaceLinkedIn,
      name \o <<" ">> \o TemplateString(company)>>

\* lines 53-58: the four queries, in the order they are tried
searchApproaches(name, company) ==
    <<name \o <<" ">> \o TemplateString(company),
      name \o TxtSpaceLinkedIn,
      <<"\"">> \o name \o <<"\"", " ">> \o TemplateString(company),
      name>>

\* the decimal digits of a small index
IndexDigits(i) == <<<<"0","1","2","3","4","5","6","7","8","9">>[i + 1]>>

\* lines 68-72: one result of the search in the format of the analysis
FormatResult(result, index, name) ==
    [url |-> IF Truthy(result.linkedin_url) THEN result.linkedin_url.s
             ELSE UrlSearchResult \o IndexDigits(index) \o <<"-">> \o TxtNow,
     title |-> (IF Truthy(result.name) THEN result.name.s ELSE name)
               \o <<" ","-"," ">>
               \o (IF Truthy(result.title) THEN result.title.s ELSE TxtProfessional)]

\* lines 75-77: the url is there, starts with http and is not a made-up one
IsValidResult(result) ==
    /\ result.url # <<>>
    /\ StartsWith(result.url, ReHttp)
    /\ ~Includes(result.url, PatSearchResult)

\* lines 68-77: searchResults.map(...).filter(...)
ValidResults(searchResults, name) ==
    SelectSeq([i \in DOMAIN searchResults |-> FormatResult(searchResults[i], i - 1, name)],
              IsValidResult)

RawResult(url, name, title) == [linkedin_url |-> url, name |-> name, title |-> title]

\* what jinaSearch.search may do (llm-enricher.js 303-352): throw when it is not
\* configured, or return a list: empty, without any usable url, or with some
SearchAnswers ==
    {[kind |-> "throws"],
     [kind |-> "results", list |-> <<>>],
     [kind |-> "results",
      list |-> <<RawResult(JUndefined, Str(NameJane), Str(TitleCEO)),
                 RawResult(Str(UrlNoScheme), JUndefined, JUndefined)>>],
     [kind |-> "results",
      list |-> <<RawResult(Str(UrlLinkedinJane), Str(NameJane), Str(TitleCEO))>>],
     [kind |-> "results",
      list |-> <<RawResult(Str(<<>>), JUndefined, Str(TitleCEO)),
                 RawResult(Str(UrlAcmeTeam), JUndefined, JUndefined),
                 RawResult(Str(UrlNoScheme), Str(NameJane), JUndefined)>>]}

NotReturned == [returned |-> FALSE]
Returned(results) == [returned |-> TRUE, results |-> results]

InitS ==
    /\ searchName \in {NameJane, NameBo}
    /\ searchCompany \in {Str(CoAcme), JUndefined}
    /\ approach = 1
    /\ spc = "query"
    /\ queryLog = <<>>
    /\ answerLog = <<>>
    /\ searchReturn = NotReturned

IdleS ==
    /\ searchName = <<>>
    /\ searchCompany = JUndefined
    /\ approach = 1
    /\ spc = "off"
    /\ queryLog = <<>>
    /\ answerLog = <<>>
    /\ searchReturn = NotReturned

\* lines 60-91: one turn of the loop over the queries, and the return of line 94
\* when the last query gave nothing
SearchAttempt ==
    /\ spc = "query"
    /\ \E answer \in SearchAnswers :
         LET searchQuery == searchApproaches(searchName, searchCompany)[approach]
             validResults == IF answer.kind = "results"
                             THEN ValidResults(answer.list, searchName) ELSE <<>>
         IN  /\ queryLog' = Append(queryLog, searchQuery)
             /\ answerLog' = Append(answerLog, answer)
             /\ IF validResults # <<>>
                THEN /\ searchReturn' = Returned(validResults)
                     /\ spc' = "done"
                     /\ UNCHANGED approach
                ELSE IF approach < Len(searchApproaches(searchName, searchCompany))
                THEN /\ approach' = approach + 1
                     /\ UNCHANGED <<spc, searchReturn>>
                ELSE /\ searchReturn' = Returned(<<>>)
                     /\ spc' = "done"
                     /\ UNCHANGED approach
    /\ UNCHANGED <<searchName, searchCompany>>
    /\ UNCHANGED <<varsU, varsD, varsV, varsE, varsC, varsR, varsQ, varsN, varsP>>

NextS == SearchAttempt

-----------------------------------------------------------------------------
(* confidence_score across the passes over a lead: SearchNode.enhanceBatchWithLLM, *)
(* the two RocketReach passes, EnrichNode.enrichLeadWithPersonalityAnalysis and    *)
(* JinaSearchAPI.enrichLeadWithAdditionalInfo                                      *)

MaxNewLeads == 2
MaxPasses == 3

\* JavaScript numbers in hundredths: 0.85 is Num(85), the boost of 0.1 is 10
Num(n) == [t |-> "num", v |-> n]
NaN == [t |-> "nan"]
\* JSON strings: a numeric one ("0.9") and one that is no number ("high")
NumericString(n) == [t |-> "numstr", v |-> n]
TextString == [t |-> "text"]

\* ToNumber of the language, which Math.max and Math.min apply to each argument
ToNumber(x) ==
    CASE x.t = "num" -> x
      [] x.t = "numstr" -> Num(x.v)
      [] x.t = "null" -> Num(0)
      [] OTHER -> NaN

\* the test of an if () on a value
IsTruthy(x) ==
    CASE x.t = "num" -> x.v # 0
      [] x.t \in {"numstr", "text"} -> TRUE
      [] OTHER -> FALSE

MathMax(a, b) ==
    LET x == ToNumber(a)
        y == ToNumber(b)
    IN  IF x.t = "nan" \/ y.t = "nan" THEN NaN ELSE IF x.v >= y.v THEN x ELSE y

MathMin(a, b) ==
    LET x == ToNumber(a)
        y == ToNumber(b)
    IN  IF x.t = "nan" \/ y.t = "nan" THEN NaN ELSE IF x.v <= y.v THEN x ELSE y

\* a number plus the number n
PlusNumber(a, n) == IF a.t = "num" THEN Num(a.v + n) ELSE NaN

\* llm-enricher.js lines 473-482
calculateConfidenceFromItem(item) ==
    LET score == 50 + (IF item.linkedin THEN 20 ELSE 0)
                    + (IF item.longDescription THEN 10 ELSE 0)
                    + (IF item.titleCIO THEN 10 ELSE 0)
                    + (IF item.banque THEN 10 ELSE 0)
    IN  MathMin(Num(100), Num(score))

\* search items: a bare page, a LinkedIn profile, and one that has everything
SearchItems ==
    {[linkedin |-> FALSE, longDescription |-> FALSE, titleCIO |-> FALSE, banque |-> FALSE],
     [linkedin |-> TRUE, longDescription |-> TRUE, titleCIO |-> FALSE, banque |-> FALSE],
     [linkedin |-> TRUE, longDescription |-> TRUE, titleCIO |-> TRUE, banque |-> TRUE]}

\* llm-enricher.js lines 417-433: the lead parseJinaResponse makes of an item
LeadOfItem(item) ==
    [confidence_score |-> calculateConfidenceFromItem(item), title |-> "found",
     llm_enhanced |-> FALSE, rocketreach |-> "none", personality_analysis |-> FALSE,
     enrichment |-> "none"]

\* what the model may give as relevance_score of an enhancement
RelevanceScores ==
    {JUndefined, JNull, Num(0), Num(0 - 20), Num(30), Num(85), Num(100), Num(8500),
     NumericString(90), TextString}

Enhancement(index, title, relevance) ==
    [index |-> index, enhanced_title |-> title, relevance_score |-> relevance]

\* the replies of the enhancement request: a failed call, text that is no JSON, an
\* object without enhanced_leads, and lists of one or two enhancements with indexes
\* inside and outside the batch
EnhanceResponses ==
    {[kind |-> "callThrows"], [kind |-> "notJson"], [kind |-> "objectWithoutList"],
     [kind |-> "object", enhanced_leads |-> <<>>]}
    \cup {[kind |-> "object", enhanced_leads |-> <<Enhancement(i, t, r)>>] :
              i \in (0 - 1)..MaxNewLeads, t \in BOOLEAN, r \in RelevanceScores}
    \cup {[kind |-> "object",
           enhanced_leads |-> <<Enhancement(0, TRUE, r1), Enhancement(i, FALSE, r2)>>] :
              i \in 0..1, r1 \in {Num(85), Num(30)}, r2 \in {Num(30), Num(8500), TextString}}

\* SearchNode.js lines 880-891, one enhancement applied to the batch
ApplyEnhancement(leads, enhancement) ==
    LET leadIndex == enhancement.index
    IN  IF leadIndex >= 0 /\ leadIndex < Len(leads)
        THEN [leads EXCEPT ![leadIndex + 1] =
                [@ EXCEPT
                    !.title = IF enhancement.enhanced_title THEN "enhanced" ELSE @,
                    !.confidence_score =
                        IF IsTruthy(enhancement.relevance_score)
                        THEN MathMax(@, enhancement.relevance_score) ELSE @,
                    !.llm_enhanced = TRUE]]
        ELSE leads

RECURSIVE ApplyEnhancements(_, _)
ApplyEnhancements(leads, enhancements) ==
    IF enhancements = <<>> THEN leads
    ELSE ApplyEnhancements(ApplyEnhancement(leads, Head(enhancements)), Tail(enhancements))

\* SearchNode.js lines 837-896: the catch of line 893 leaves the batch as it was
enhanceBatchWithLLM(leads, response) ==
    IF response.kind = "object"
    THEN ApplyEnhancements(leads, response.enhanced_leads)
    ELSE leads

\* SearchNode.js lines 1226-1322: field-wise writes on leads not yet tried
enrichLeadsWithRocketReach(leads, found) ==
    [k \in DOMAIN leads |->
        IF leads[k].rocketreach = "none"
        THEN [leads[k] EXCEPT !.rocketreach = IF found[k] THEN "enriched" ELSE "attempted"]
        ELSE leads[k]]

\* SearchNode.js lines 947-1060: field-wise writes on stored leads in need of contact
\* data, once per lead (line 1074)
updateExistingLeadsWithRocketReach(leads, found) ==
    [k \in DOMAIN leads |->
        IF leads[k].rocketreach # "updated" /\ found[k]
        THEN [leads[k] EXCEPT !.rocketreach = "updated"]
        ELSE leads[k]]

\* EnrichNode.js lines 416-449 and the other returns: every one spreads the lead and
\* writes personality fields
enrichLeadWithPersonalityAnalysis(lead) == [lead EXCEPT !.personality_analysis = TRUE]

\* llm-enricher.js lines 651-744: the return of lines 724-729, or of the catch
enrichLeadWithAdditionalInfo(lead, threw) ==
    IF threw THEN [lead EXCEPT !.enrichment = "error"]
    ELSE [lead EXCEPT
            !.enrichment = "done",
            !.confidence_score = MathMin(Num(100), PlusNumber(lead.confidence_score, 10))]

InitC ==
    /\ newLeads \in UNION {[1..n -> {LeadOfItem(item) : item \in SearchItems}] :
                            n \in 1..MaxNewLeads}
    /\ lastPass = "none"
    /\ passes = 0

IdleC ==
    /\ newLeads = <<>>
    /\ lastPass = "off"
    /\ passes = 0

PassDone(name) ==
    /\ lastPass # "off"
    /\ passes < MaxPasses
    /\ passes' = passes + 1
    /\ lastPass' = name
    /\ UNCHANGED <<varsU, varsD, varsV, varsE, varsS, varsR, varsQ, varsN, varsP>>

EnhanceBatch ==
    /\ PassDone("llm_enhancement")
    /\ \E response \in EnhanceResponses : newLeads' = enhanceBatchWithLLM(newLeads, response)

RocketReachEnrich ==
    /\ PassDone("rocketreach_enrichment")
    /\ \E found \in [DOMAIN newLeads -> BOOLEAN] :
         newLeads' = enrichLeadsWithRocketReach(newLeads, found)

ContactUpgrade ==
    /\ PassDone("contact_upgrade")
    /\ \E found \in [DOMAIN newLeads -> BOOLEAN] :
         newLeads' = updateExistingLeadsWithRocketReach(newLeads, found)

IntelligenceEnrich ==
    /\ PassDone("intelligence_enrichment")
    /\ \E k \in DOMAIN newLeads :
         newLeads' = [newLeads EXCEPT ![k] = enrichLeadWithPersonalityAnalysis(@)]

AdditionalInfoEnrich ==
    /\ PassDone("additional_info")
    /\ \E k \in DOMAIN newLeads, threw \in BOOLEAN :
         newLeads' = [newLeads EXCEPT ![k] = enrichLeadWithAdditionalInfo(@, threw)]

NextC ==
    \/ EnhanceBatch
    \/ RocketReachEnrich
    \/ ContactUpgrade
    \/ IntelligenceEnrich
    \/ AdditionalInfoEnrich

-----------------------------------------------------------------------------
(* SearchNode.run: the persona loop, the validation filter, the RocketReach and   *)
(* enhancement passes over the new leads, the merge with state.leads and the save *)

MaxPersonas == 2
\* leads the queries of one persona bring back
MaxFound == 2
MaxRuns == 2
targetLeadsPerPersona == 10

\* search items as parseJinaResponse gives them (llm-enricher.js 417-433): email and
\* linkedin_url are strings made from the item
FoundItems ==
    {[name |-> "jane", email |-> Str(EmailJaneDoe), linkedin_url |-> Str(UrlLinkedinJane)],
     [name |-> "bob", email |-> Str(EmailBob), linkedin_url |-> Str(UrlWwwLinkedinJd)],
     [name |-> "acme", email |-> Str(EmailInfoAcme), linkedin_url |-> Str(UrlAcmeTeam)]}

\* lines 768-778: a result with the persona it was found for
ProcessedLead(item, personaName) ==
    [name |-> item.name, email |-> item.email, linkedin_url |-> item.linkedin_url,
     persona_id |-> personaName, is_valid_person |-> "undefined",
     validation_reason |-> "undefined", rocketreach |-> "none", llm_enhanced |-> FALSE]

\* lines 739-785: the results of the queries of one persona, without duplicates, cut
\* at the target
searchForRealLeads(found, personaName) ==
    Slice(removeDuplicateLeads([k \in DOMAIN found |-> ProcessedLead(found[k], personaName)]),
          0, targetLeadsPerPersona)

\* the filter keeping only the leads judged to be persons
KeptIfJudgedValid(leads) == SelectSeq(leads, LAMBDA lead : lead.is_valid_person = "true")

\* line 600: allLeads.filter(lead => lead.is_valid_person !== false)
KeptAfterValidation(leads) == SelectSeq(leads, LAMBDA lead : lead.is_valid_person # "false")

\* replies to the validation request of a run: a failed call, text that is no JSON,
\* an object without validations, and up to two verdicts on the first leads
RunValidationEntries ==
    {[kind |-> "null"]}
    \cup {[kind |-> "entry", index |-> x, is_valid_person |-> v,
           reason |-> IF v = "true" THEN "Real person name" ELSE "Company name, not a person"] :
             x \in 0..(MaxFound - 1), v \in {"true", "false"}}

\* the first run of a behaviour is followed in detail, later ones with fewer inputs
FirstRun == runs = 1

RunValidationResponses ==
    IF FirstRun
    THEN {[kind |-> "callThrows"], [kind |-> "parseThrows"], [kind |-> "noValidations"]}
         \cup {[kind |-> "parsed", validations |-> v] :
                 v \in UNION {[1..n -> RunValidationEntries] : n \in 0..2}}
    ELSE {[kind |-> "callThrows"],
          [kind |-> "parsed",
           validations |-> <<[kind |-> "entry", index |-> 0, is_valid_person |-> "false",
                              reason |-> "Company name, not a person"]>>]}

\* what the queries of one persona bring back
FoundLists ==
    IF FirstRun THEN UNION {[1..n -> FoundItems] : n \in 0..MaxFound}
    ELSE {<<>>} \cup {<<item>> : item \in {i \in FoundItems : i.name = "jane"}}

\* whether a pass over several leads finds its data: both ways for a single lead of
\* a first run, found otherwise
PassOutcomes(leads) == IF FirstRun /\ Len(leads) <= 1 THEN BOOLEAN ELSE {TRUE}

\* lines 880-891 on the fields followed here
MarkEnhanced(leads) == [k \in DOMAIN leads |-> [leads[k] EXCEPT !.llm_enhanced = TRUE]]

InitR ==
    /\ runState = <<>>
    /\ runAllLeads = <<>>
    /\ personas \in 1..MaxPersonas
    /\ persona = 1
    /\ rpc = "idle"
    /\ hasLLM = FALSE
    /\ runs = 0
    /\ runStoredBefore = <<>>
    /\ runFound = <<>>
    /\ runValidated = <<>>
    /\ runResponse = NoResponse

IdleR ==
    /\ runState = <<>>
    /\ runAllLeads = <<>>
    /\ personas = 0
    /\ persona = 1
    /\ rpc = "off"
    /\ hasLLM = FALSE
    /\ runs = 0
    /\ runStoredBefore = <<>>
    /\ runFound = <<>>
    /\ runValidated = <<>>
    /\ runResponse = NoResponse

\* lines 533-560: the state is loaded, the configuration read
SearchRunStart ==
    /\ rpc = "idle"
    /\ runs < MaxRuns
    /\ runs' = runs + 1
    /\ hasLLM' \in BOOLEAN
    /\ runAllLeads' = <<>>
    /\ persona' = 1
    /\ rpc' = "personas"
    /\ runStoredBefore' = runState
    /\ runFound' = <<>>
    /\ runValidated' = <<>>
    /\ runResponse' = NoResponse
    /\ UNCHANGED <<runState, personas>>
    /\ UNCHANGED <<varsU, varsD, varsV, varsE, varsS, varsC, varsQ, varsN, varsP>>

\* lines 563-582: one persona of the loop
SearchPersona ==
    /\ rpc = "personas"
    /\ \E found \in FoundLists :
         /\ runAllLeads' = runAllLeads \o searchForRealLeads(found, persona)
         /\ runFound' = runAllLeads \o searchForRealLeads(found, persona)
    /\ IF persona < personas
       THEN persona' = persona + 1 /\ UNCHANGED rpc
       ELSE rpc' = "update" /\ UNCHANGED persona
    /\ UNCHANGED <<runState, personas, hasLLM, runs, runStoredBefore, runValidated, runResponse>>
    /\ UNCHANGED <<varsU, varsD, varsV, varsE, varsS, varsC, varsQ, varsN, varsP>>

\* lines 586-592: the stored leads are updated in place, all found or none; the
\* contact fields written are those of the upgrade pass
UpdateStored ==
    /\ rpc = "update"
    /\ \E found \in PassOutcomes(runState) :
         runState' = updateExistingLeadsWithRocketReach(runState, [k \in DOMAIN runState |-> found])
    /\ rpc' = IF runAllLeads = <<>> THEN "save" ELSE IF hasLLM THEN "validate" ELSE "rocketreach"
    /\ UNCHANGED <<runAllLeads, personas, persona, hasLLM, runs, runStoredBefore, runFound,
                   runValidated, runResponse>>
    /\ UNCHANGED <<varsU, varsD, varsV, varsE, varsS, varsC, varsQ, varsN, varsP>>

\* lines 595-611: validateLeadsWithLLM (one batch, the leads being fewer than ten)
\* and the filter
ValidateAndFilter ==
    /\ rpc = "validate"
    /\ \E response \in RunValidationResponses :
         LET validated == ValidateBatchLeads(runAllLeads, 0, response)
         IN  /\ runResponse' = response
             /\ runValidated' = validated
             /\ runAllLeads' = KeptAfterValidation(validated)
             /\ rpc' = IF KeptAfterValidation(validated) = <<>> THEN "save" ELSE "rocketreach"
    /\ UNCHANGED <<runState, personas, persona, hasLLM, runs, runStoredBefore, runFound>>
    /\ UNCHANGED <<varsU, varsD, varsV, varsE, varsS, varsC, varsQ, varsN, varsP>>

\* lines 614-617
EnrichNewLeads ==
    /\ rpc = "rocketreach"
    /\ \E found \in PassOutcomes(runAllLeads) :
         runAllLeads' = enrichLeadsWithRocketReach(runAllLeads, [k \in DOMAIN runAllLeads |-> found])
    /\ rpc' = IF hasLLM THEN "enhance" ELSE "save"
    /\ UNCHANGED <<runState, personas, persona, hasLLM, runs, runStoredBefore, runFound,
                   runValidated, runResponse>>
    /\ UNCHANGED <<varsU, varsD, varsV, varsE, varsS, varsC, varsQ, varsN, varsP>>

\* lines 620-623: the enhancement reaches every lead or fails as a whole
EnhanceNewLeads ==
    /\ rpc = "enhance"
    /\ \E enhanced \in PassOutcomes(runAllLeads) :
         runAllLeads' = IF enhanced THEN MarkEnhanced(runAllLeads) ELSE runAllLeads
    /\ rpc' = "save"
    /\ UNCHANGED <<runState, personas, persona, hasLLM, runs, runStoredBefore, runFound,
                   runValidated, runResponse>>
    /\ UNCHANGED <<varsU, varsD, varsV, varsE, varsS, varsC, varsQ, varsN, varsP>>

\* lines 626-629 and saveLeads (906-939): state.leads = [...state.leads, ...allLeads]
MergeAndSave ==
    /\ rpc = "save"
    /\ runState' = runState \o runAllLeads
    /\ rpc' = "idle"
    /\ UNCHANGED <<runAllLeads, personas, persona, hasLLM, runs, runStoredBefore, runFound,
                   runValidated, runResponse>>
    /\ UNCHANGED <<varsU, varsD, varsV, varsE, varsS, varsC, varsQ, varsN, varsP>>

NextR ==
    \/ SearchRunStart
    \/ SearchPersona
    \/ UpdateStored
    \/ ValidateAndFilter
    \/ EnrichNewLeads
    \/ EnhanceNewLeads
    \/ MergeAndSave

-----------------------------------------------------------------------------
(* SearchNode.hasLowQualityEmail applied to addresses local@domain            *)

\* "jane.doe"
LocalJane ==
    <<"j","a","n","e",".","d","o","e">>
\* "info"
LocalInfo ==
    <<"i","n","f","o">>
\* "noreply"
LocalNoreply ==
    <<"n","o","r","e","p","l","y">>
\* "support"
LocalSupport ==
    <<"s","u","p","p","o","r","t">>
\* "marc.info"
LocalMarcInfo ==
    <<"m","a","r","c",".","i","n","f","o">>
\* "it-support"
LocalItSupport ==
    <<"i","t","-","s","u","p","p","o","r","t">>
\* "informatique"
LocalInformatique ==
    <<"i","n","f","o","r","m","a","t","i","q","u","e">>
\* "bo"
LocalBo ==
    <<"b","o">>
\* "acme.com"
DomAcme ==
    <<"a","c","m","e",".","c","o","m">>
\* "example.com"
DomExample ==
    <<"e","x","a","m","p","l","e",".","c","o","m">>
\* "test.com"
DomTest ==
    <<"t","e","s","t",".","c","o","m">>
\* "placeholder.com"
DomPlaceholder ==
    <<"p","l","a","c","e","h","o","l","d","e","r",".","c","o","m">>
\* "financialservic.com.fr"
DomFinancialservic ==
    <<"f","i","n","a","n","c","i","a","l","s","e","r","v","i","c",".","c","o","m",".","f","r">>
\* "example.com.br"
DomExampleBr ==
    <<"e","x","a","m","p","l","e",".","c","o","m",".","b","r">>
\* "test.company.io"
DomTestCompany ==
    <<"t","e","s","t",".","c","o","m","p","a","n","y",".","i","o">>
TxtAt == <<"@">>

LocalParts == {LocalJane, LocalInfo, LocalNoreply, LocalSupport, LocalMarcInfo, LocalItSupport, LocalInformatique, LocalBo}
Domains == {DomAcme, DomExample, DomTest, DomPlaceholder, DomFinancialservic, DomExampleBr, DomTestCompany}

\* the address as a JavaScript value
AddressOf(input) ==
    IF input.kind = "address" THEN Str(input.local \o TxtAt \o input.domain) ELSE input.value

\* an absent address (null, undefined, '') or the address local@domain
QualityInputs ==
    {[kind |-> "absent", value |-> v] : v \in {JNull, JUndefined, Str(<<>>)}}
    \cup {[kind |-> "address", local |-> l, domain |-> d] : l \in LocalParts, d \in Domains}

InitQ ==
    /\ qEmail \in QualityInputs
    /\ qpc = "input"
    /\ qFlag = FALSE

IdleQ ==
    /\ qEmail = [kind |-> "absent", value |-> JNull]
    /\ qpc = "off"
    /\ qFlag = FALSE

\* lines 1116-1131
CheckEmailQuality ==
    /\ qpc = "input"
    /\ qFlag' = hasLowQualityEmail(AddressOf(qEmail))
    /\ qpc' = "done"
    /\ UNCHANGED qEmail
    /\ UNCHANGED <<varsU, varsD, varsV, varsE, varsS, varsC, varsR, varsN, varsP>>

NextQ == CheckEmailQuality

-----------------------------------------------------------------------------
(* RocketReach enrichment of new leads: SearchNode.enrichLeadsWithRocketReach *)

MaxEnrichLeads == 2
MaxEnrichCalls == 2

FoundLead(email, linkedin, company, title, location) ==
    [email |-> email, linkedin_url |-> linkedin, company |-> company, title |-> title,
     location |-> location, rocketreach_enriched |-> FALSE, rocketreach_attempted |-> FALSE,
     rocketreach_url |-> FALSE]

\* leads as a caller hands them over: with no contact data, with every field
\* filled, with a placeholder email and no profile URL
NewLeadPool ==
    {FoundLead(JNull, JNull, Str(GenUnknownCompany), Str(TxtProfessional), JNull),
     FoundLead(Str(EmailJaneDoe), Str(UrlWwwLinkedinJd), Str(CoAcme), Str(TitleCEO), Str(LocParis)),
     FoundLead(Str(EmailPlaceholderJane), JNull, Str(GenCompany), Str(TitleVP), JUndefined)}

\* line 1228
NeedsEnrichment(lead) == ~lead.rocketreach_enriched /\ ~lead.rocketreach_attempted

RECURSIVE LeadsNeedingEnrichment(_, _)
\* the indices k >= i the filter of line 1228 keeps, in order
LeadsNeedingEnrichment(leads, i) ==
    IF i > Len(leads) THEN <<>>
    ELSE (IF NeedsEnrichment(leads[i]) THEN <<i>> ELSE <<>>)
         \o LeadsNeedingEnrichment(leads, i + 1)

\* lines 1271-1297: fill the empty fields, then mark the lead enriched
FillFromContactInfo(lead, info) ==
    [lead EXCEPT
        !.email = IF Truthy(info.email) /\ ~Truthy(lead.email) THEN info.email ELSE @,
        !.linkedin_url = IF Truthy(info.linkedin_url) /\ ~Truthy(lead.linkedin_url)
                         THEN info.linkedin_url ELSE @,
        !.company = IF Truthy(info.company)
                       /\ (~Truthy(lead.company) \/ lead.company = Str(GenUnknownCompany))
                    THEN info.company ELSE @,
        !.title = IF Truthy(info.title)
                     /\ (~Truthy(lead.title) \/ lead.title = Str(TxtProfessional))
                  THEN info.title ELSE @,
        !.location = IF Truthy(info.location) /\ ~Truthy(lead.location)
                     THEN info.location ELSE @,
        !.rocketreach_enriched = TRUE,
        !.rocketreach_url = TRUE]

\* a variant whose catch block leaves the lead unmarked
EnrichedNewLeadCatchUnmarked(lead, outcome) ==
    LET info == IF outcome.kind = "answer" THEN extractRocketReachContactInfo(outcome.answer)
                ELSE NoContact
    IN  IF outcome.kind = "searchThrows" THEN lead
        ELSE IF outcome.kind = "noProfile" THEN [lead EXCEPT !.rocketreach_attempted = TRUE]
        ELSE IF IsContact(info) THEN FillFromContactInfo(lead, info)
        ELSE [lead EXCEPT !.rocketreach_attempted = TRUE]

\* lines 1247-1314: one iteration of the loop on one lead
EnrichedNewLead(lead, outcome) ==
    LET info == IF outcome.kind = "answer" THEN extractRocketReachContactInfo(outcome.answer)
                ELSE NoContact
    IN  IF outcome.kind = "searchThrows" THEN [lead EXCEPT !.rocketreach_attempted = TRUE]
        ELSE IF outcome.kind = "noProfile" THEN [lead EXCEPT !.rocketreach_attempted = TRUE]
        ELSE IF IsContact(info) THEN FillFromContactInfo(lead, info)
        ELSE [lead EXCEPT !.rocketreach_attempted = TRUE]

InitN ==
    /\ nLeads \in UNION {[1..n -> NewLeadPool] : n \in 1..MaxEnrichLeads}
    /\ nInput = nLeads
    /\ nNeeding = <<>>
    /\ ni = 1
    /\ npc = "idle"
    /\ nCalls = NoCalls
    /\ nInvocations = 0
    /\ nLog = <<>>

IdleN ==
    /\ nLeads = <<>>
    /\ nInput = <<>>
    /\ nNeeding = <<>>
    /\ ni = 1
    /\ npc = "off"
    /\ nCalls = NoCalls
    /\ nInvocations = 0
    /\ nLog = <<>>

\* lines 1226-1241: select the leads to enrich; return at once when there is none
EnrichNewStart ==
    /\ npc = "idle"
    /\ nInvocations < MaxEnrichCalls
    /\ nInvocations' = nInvocations + 1
    /\ nNeeding' = LeadsNeedingEnrichment(nLeads, 1)
    /\ ni' = 1
    /\ nCalls' = NoCalls
    /\ npc' = IF LeadsNeedingEnrichment(nLeads, 1) = <<>> THEN "idle" ELSE "loop"
    /\ UNCHANGED <<nLeads, nInput, nLog>>
    /\ UNCHANGED <<varsU, varsD, varsV, varsE, varsS, varsC, varsR, varsQ, varsP>>

\* lines 1244-1320: one iteration, the last one ends the call
EnrichNewIteration ==
    /\ npc = "loop"
    /\ \E outcome \in IterationOutcomes :
         /\ nLeads' = [nLeads EXCEPT ![nNeeding[ni]] = EnrichedNewLead(@, outcome)]
         /\ nCalls' = [search |-> nCalls.search + CallsOf(outcome).search,
                       fetch |-> nCalls.fetch + CallsOf(outcome).fetch,
                       llm |-> nCalls.llm + CallsOf(outcome).llm]
         /\ nLog' = Append(nLog, outcome.kind)
    /\ ni' = ni + 1
    /\ npc' = IF ni = Len(nNeeding) THEN "idle" ELSE "loop"
    /\ UNCHANGED <<nInput, nNeeding, nInvocations>>
    /\ UNCHANGED <<varsU, varsD, varsV, varsE, varsS, varsC, varsR, varsQ, varsP>>

NextN == EnrichNewStart \/ EnrichNewIteration

-----------------------------------------------------------------------------
(* EnrichNode.run invoked repeatedly on the state it saved                    *)

MaxPendingLeads == 11
\* how many people of the list a search may find
MaxFindable == 2

\* lists of pending leads longer than or as long as the limit of line 517, with
\* equal scores, scores falling along the list, scores rising along the list
PendingBatches ==
    {[k \in 1..n |-> NewLead(k, 80)] : n \in enrichTop..MaxPendingLeads}
    \cup {[k \in 1..n |-> NewLead(k, 95 - k)] : n \in enrichTop..MaxPendingLeads}
    \cup {[k \in 1..n |-> NewLead(k, 70 + k)] : n \in enrichTop..MaxPendingLeads}

\* lines 606-615: the catch of the batch loop
ThrownLead(lead) ==
    [lead EXCEPT !.personality_analysis = [error |-> "thrown", analyzed_at |-> "now"]]

\* what enrichLeadWithPersonalityAnalysis may do for a lead: a person no search
\* finds gets the no-results record every time
AttemptOutcomes(lead) ==
    IF lead.name \in pNeverFound THEN {NoSearchResultsLead(lead)}
    ELSE {NoSearchResultsLead(lead), ThrownLead(lead),
          DoneLead(lead.name, lead.confidence_score)}

InitP ==
    /\ pLeads \in PendingBatches
    /\ pNeverFound \in {S \in SUBSET (1..Len(pLeads)) :
                          Cardinality(S) >= Len(pLeads) - MaxFindable}
    /\ pBatch = <<>>
    /\ pIdx = 1
    /\ ppc = "idle"
    /\ pAttempted = {}

IdleP ==
    /\ pLeads = <<>>
    /\ pNeverFound = {}
    /\ pBatch = <<>>
    /\ pIdx = 1
    /\ ppc = "off"
    /\ pAttempted = {}

\* lines 513-523: select the batch; return when no lead is pending
RepeatRunStart ==
    /\ ppc = "idle"
    /\ pBatch' = LeadsToEnrich(pLeads)
    /\ pIdx' = 1
    /\ ppc' = IF LeadsToEnrich(pLeads) = <<>> THEN "idle" ELSE "loop"
    /\ UNCHANGED <<pLeads, pNeverFound, pAttempted>>
    /\ UNCHANGED <<varsU, varsD, varsV, varsE, varsS, varsC, varsR, varsQ, varsN>>

\* lines 567-616: one lead of the batch is attempted and its result merged
RepeatAttempt ==
    /\ ppc = "loop"
    /\ \E result \in AttemptOutcomes(pLeads[pBatch[pIdx]]) :
         pLeads' = [pLeads EXCEPT ![pBatch[pIdx]] = result]
    /\ pAttempted' = pAttempted \cup {pBatch[pIdx]}
    /\ pIdx' = pIdx + 1
    /\ ppc' = IF pIdx = Len(pBatch) THEN "save" ELSE "loop"
    /\ UNCHANGED <<pNeverFound, pBatch>>
    /\ UNCHANGED <<varsU, varsD, varsV, varsE, varsS, varsC, varsR, varsQ, varsN>>

\* lines 537-553: the list is saved and run returns
RepeatSave ==
    /\ ppc = "save"
    /\ ppc' = "idle"
    /\ pBatch' = <<>>
    /\ pIdx' = 1
    /\ UNCHANGED <<pLeads, pNeverFound, pAttempted>>
    /\ UNCHANGED <<varsU, varsD, varsV, varsE, varsS, varsC, varsR, varsQ, varsN>>

NextP == RepeatRunStart \/ RepeatAttempt \/ RepeatSave

-----------------------------------------------------------------------------
(* Specifications *)

InitUpgrade == InitU /\ IdleD /\ IdleV /\ IdleE /\ IdleS /\ IdleC /\ IdleR /\ IdleQ /\ IdleN /\ IdleP
SpecU == InitUpgrade /\ [][NextU]_vars

InitDedup == InitD /\ IdleU /\ IdleV /\ IdleE /\ IdleS /\ IdleC /\ IdleR /\ IdleQ /\ IdleN /\ IdleP
SpecD == InitDedup /\ [][NextD]_vars

InitValidate == InitV /\ IdleU /\ IdleD /\ IdleE /\ IdleS /\ IdleC /\ IdleR /\ IdleQ /\ IdleN /\ IdleP
SpecV == InitValidate /\ [][NextV]_vars

InitEnrich == InitE /\ IdleU /\ IdleD /\ IdleV /\ IdleS /\ IdleC /\ IdleR /\ IdleQ /\ IdleN /\ IdleP
SpecE == InitEnrich /\ [][NextE]_vars

InitSearch == InitS /\ IdleU /\ IdleD /\ IdleV /\ IdleE /\ IdleC /\ IdleR /\ IdleQ /\ IdleN /\ IdleP
SpecS == InitSearch /\ [][NextS]_vars

InitConfidence == InitC /\ IdleU /\ IdleD /\ IdleV /\ IdleE /\ IdleS /\ IdleR /\ IdleQ /\ IdleN /\ IdleP
SpecC == InitConfidence /\ [][NextC]_vars

InitRun == InitR /\ IdleU /\ IdleD /\ IdleV /\ IdleE /\ IdleS /\ IdleC /\ IdleQ /\ IdleN /\ IdleP
SpecR == InitRun /\ [][NextR]_vars

InitQuality == InitQ /\ IdleU /\ IdleD /\ IdleV /\ IdleE /\ IdleS /\ IdleC /\ IdleR /\ IdleN /\ IdleP
SpecQ == InitQuality /\ [][NextQ]_vars

InitNewLeads == InitN /\ IdleU /\ IdleD /\ IdleV /\ IdleE /\ IdleS /\ IdleC /\ IdleR /\ IdleQ /\ IdleP
SpecN == InitNewLeads /\ [][NextN]_vars

\* run is invoked again as soon as it has returned, and a run in progress goes on
InitRepeated == InitP /\ IdleU /\ IdleD /\ IdleV /\ IdleE /\ IdleS /\ IdleC /\ IdleR /\ IdleQ /\ IdleN
FairP == WF_vars(RepeatRunStart) /\ WF_vars(RepeatAttempt) /\ WF_vars(RepeatSave)
SpecP == InitRepeated /\ [][NextP]_vars /\ FairP

-----------------------------------------------------------------------------
(* Properties of the contact-upgrade pass *)

\* an iteration of the pass has just applied extracted contact info to a lead
UpgradeApplied == ui > 1 /\ IsContact(contactInfo)
\* the lead of that iteration, as it is now
LeadAfter == existingLeads[leadsToUpdate[ui - 1]]

\* the decider of one field keeps a high-quality current value against a low-quality
\* or equal candidate, and replaces a low-quality current value by a high-quality one
FieldMonotone(isLow(_), isBetter(_, _), candidate, current) ==
    /\ (~isLow(current) /\ (isLow(candidate) \/ candidate = current))
            => ~isBetter(candidate, current)
    /\ (isLow(current) /\ ~isLow(candidate)) => isBetter(candidate, current)

\* the pass honours the decider: a field is overwritten exactly when a usable
\* candidate was judged better, and a high-quality value is never lost
FieldApplied(isLow(_), candidate, before, after) ==
    /\ ~isLow(before) => after = before
    /\ (isLow(before) /\ ~isLow(candidate)) => after = candidate

\* C2: upgrade monotonicity of email, LinkedIn URL and company. For every stored
\* value and every candidate, is*Better is false when the current value is high
\* quality and the candidate is low quality or the same, and true when the current
\* value is low quality and the candidate is high quality; the pass applies exactly
\* that, so a news-article URL gives way to a linkedin.com/in/ profile, never the
\* reverse, and a @financialservic.com.fr email gives way to a real one.
C2_UpgradeMonotone ==
    /\ \A k \in DOMAIN existingLeads :
         /\ \A c \in EmailValues :
              FieldMonotone(hasLowQualityEmail, isEmailBetter, c, existingLeads[k].email)
         /\ \A c \in LinkedInValues :
              FieldMonotone(hasLowQualityLinkedIn, isLinkedInBetter, c,
                            existingLeads[k].linkedin_url)
         /\ \A c \in CompanyValues :
              FieldMonotone(hasLowQualityCompany, isCompanyBetter, c, existingLeads[k].company)
    /\ isLinkedInBetter(Str(UrlLinkedinJane), Str(UrlNewsArticle))
    /\ ~isLinkedInBetter(Str(UrlNewsArticle), Str(UrlLinkedinJane))
    /\ isEmailBetter(Str(EmailJaneDoe), Str(EmailPlaceholderJane))
    /\ UpgradeApplied =>
         /\ FieldApplied(hasLowQualityEmail, contactInfo.email, leadBefore.email, LeadAfter.email)
         /\ FieldApplied(hasLowQualityLinkedIn, contactInfo.linkedin_url,
                         leadBefore.linkedin_url, LeadAfter.linkedin_url)
         /\ FieldApplied(hasLowQualityCompany, contactInfo.company, leadBefore.company,
                         LeadAfter.company)

\* a pass replaced a news-article URL by the profile URL and the placeholder email
\* by a real one, in one iteration
C2_Witness ==
    /\ UpgradeApplied
    /\ leadBefore.linkedin_url = Str(UrlNewsArticle)
    /\ LeadAfter.linkedin_url = Str(UrlLinkedinJane)
    /\ leadBefore.email = Str(EmailPlaceholderJane)
    /\ LeadAfter.email = Str(EmailJaneDoe)

\* C3: the title upgrade never downgrades. When the current title is non-empty and
\* not 'Professional', and the extracted title is the placeholder 'Professional' or
\* a title that is no longer than the current one, the decider answers false and
\* the pass leaves the current title in place.
C3_TitleNeverDowngraded ==
    (/\ UpgradeApplied
     /\ Truthy(leadBefore.title)
     /\ leadBefore.title # Str(TxtProfessional)
     /\ Truthy(contactInfo.title)
     /\ \/ contactInfo.title = Str(TxtProfessional)
        \/ Len(contactInfo.title.s) <= Len(leadBefore.title.s))
        => /\ ~isTitleBetter(contactInfo.title, leadBefore.title)
           /\ LeadAfter.title = leadBefore.title

-----------------------------------------------------------------------------
(* Properties of the deduplicator *)

\* the positions of the input whose key (as removeDuplicateLeads builds it) did not
\* occur at an earlier position
FirstOccurrences == {i \in DOMAIN allLeads : \A j \in 1..(i - 1) : KeyOf(allLeads[j]) # KeyOf(allLeads[i])}

\* C4: dedup stability. The output is the subsequence of the input made of the
\* first occurrence of each key, in input order: names strictly increase along the
\* output, each output lead is the input lead of that position, and the positions
\* kept are exactly the first occurrences.
C4_DedupStable ==
    dpc = "done" =>
        /\ \A k \in DOMAIN uniqueLeads :
             /\ uniqueLeads[k].name \in DOMAIN allLeads
             /\ uniqueLeads[k] = allLeads[uniqueLeads[k].name]
        /\ \A k \in 1..(Len(uniqueLeads) - 1) : uniqueLeads[k].name < uniqueLeads[k + 1].name
        /\ {uniqueLeads[k].name : k \in DOMAIN uniqueLeads} = FirstOccurrences

\* [A, A, B]: the repeated lead is dropped and B follows A
C4_Witness ==
    /\ dpc = "done"
    /\ Len(allLeads) = 3
    /\ KeyOf(allLeads[1]) = KeyOf(allLeads[2])
    /\ KeyOf(allLeads[3]) # KeyOf(allLeads[1])
    /\ uniqueLeads = <<allLeads[1], allLeads[3]>>

\* C5: a lead is dropped only if an earlier lead has the same email and the same
\* linkedin_url, a missing component being different from every string.
C5_DropOnlyTrueDuplicates ==
    dpc = "done" =>
        \A i \in DOMAIN allLeads :
            (\A k \in DOMAIN uniqueLeads : uniqueLeads[k].name # i) =>
                \E j \in 1..(i - 1) :
                    /\ allLeads[j].email = allLeads[i].email
                    /\ allLeads[j].linkedin_url = allLeads[i].linkedin_url

-----------------------------------------------------------------------------
(* Properties of the validator *)

\* the batch of the last iteration ended in the catch block
LastBatchThrew == vi > 0 /\ BatchThrows(vLeadsBefore, vi - batchSize, vResponse)

\* C6: validator failure containment. When the model call or the parse of a batch
\* throws, or applying the verdicts throws midway, the loop goes on (nothing
\* escapes), every lead of that batch is valid with the default-kept reason whatever
\* verdicts were applied before the throw, and every lead outside it is untouched.
C6_ValidatorContainment ==
    LastBatchThrew =>
        /\ vpc \in {"loop", "done"}
        /\ Len(vLeads) = Len(vLeadsBefore)
        /\ \A k \in DOMAIN vLeads :
             IF k \in BatchOf(vLeads, vi - batchSize)
             THEN /\ vLeads[k].is_valid_person = "true"
                  /\ vLeads[k].validation_reason = DefaultKeptReason
                  /\ vLeads[k].name = vLeadsBefore[k].name
             ELSE vLeads[k] = vLeadsBefore[k]

\* the second batch threw after a 'false' verdict had been applied to its first
\* lead, while the first batch holds a model verdict
C6_Witness ==
    /\ LastBatchThrew
    /\ vi = 2 * batchSize
    /\ vResponse.kind = "parsed"
    /\ Len(vResponse.validations) = 2
    /\ vResponse.validations[1].kind = "entry"
    /\ vResponse.validations[1].index = 0
    /\ vResponse.validations[1].is_valid_person = "false"
    /\ vLeads[1].is_valid_person = "false"
    /\ vLeads[batchSize + 1].is_valid_person = "true"

-----------------------------------------------------------------------------
(* Batching of the validator *)

\* the entries of the reply whose index names position p of the list, for the batch
\* that starts at offset i and holds size leads
VerdictsFor(validations, i, size, p) ==
    {e \in DOMAIN validations :
        /\ validations[e].index = p - 1 - i
        /\ validations[e].index >= 0
        /\ validations[e].index < size}

LastOf(S) == CHOOSE e \in S : \A f \in S : f <= e

\* C31: validator batching. validateLeadsWithLLM cuts the list into consecutive
\* batches of 10, the last one possibly shorter, issues exactly one model call per
\* batch in list order, and applies a verdict {index k, is_valid_person, reason} of
\* the batch at offset i to exactly the lead at position i+k; verdicts with k outside
\* [0, batch length) modify no lead.
C31_ValidatorBatching ==
    /\ \A j \in DOMAIN vCalls :
           /\ vCalls[j].offset = (j - 1) * batchSize
           /\ vCalls[j].size > 0
           /\ vCalls[j].size =
                  IF Len(vLeads) - vCalls[j].offset < batchSize
                  THEN Len(vLeads) - vCalls[j].offset ELSE batchSize
    /\ vpc = "done" =>
           /\ Len(vCalls) * batchSize >= Len(vLeads)
           /\ Len(vCalls) > 0 => (Len(vCalls) - 1) * batchSize < Len(vLeads)
    /\ (vi > 0 /\ vResponse.kind = "parsed" /\ ~LastBatchThrew) =>
           \A p \in DOMAIN vLeads :
               LET call == vCalls[Len(vCalls)]
                   hits == VerdictsFor(vResponse.validations, call.offset, call.size, p)
               IN  IF hits = {}
                   THEN vLeads[p] = vLeadsBefore[p]
                   ELSE /\ vLeads[p].name = vLeadsBefore[p].name
                        /\ vLeads[p].is_valid_person =
                               vResponse.validations[LastOf(hits)].is_valid_person
                        /\ vLeads[p].validation_reason =
                               vResponse.validations[LastOf(hits)].reason

\* twelve leads went in two calls; the reply for the second batch of two leads named
\* index 0, applied to the eleventh lead, and index 9, which is outside that batch
C31_Witness ==
    /\ vpc = "done"
    /\ Len(vLeads) = batchSize + 2
    /\ Len(vCalls) = 2
    /\ vResponse.kind = "parsed"
    /\ Len(vResponse.validations) = 2
    /\ vResponse.validations[1].kind = "entry" /\ vResponse.validations[1].index = 0
    /\ vResponse.validations[1].is_valid_person = "false"
    /\ vResponse.validations[2].kind = "entry" /\ vResponse.validations[2].index = batchSize - 1
    /\ vLeads[batchSize + 1].is_valid_person = "false"
    /\ vLeads[batchSize + 2] = vLeadsBefore[batchSize + 2]
    /\ vLeads[batchSize] = vLeadsBefore[batchSize]

-----------------------------------------------------------------------------
(* Properties of the enrichment orchestrator and of the summarizer *)

\* the lead carries an analysis without an error field
IsDone(lead) ==
    lead.personality_analysis # Absent /\ "error" \notin DOMAIN lead.personality_analysis
AllDone(leads) == \A k \in DOMAIN leads : IsDone(leads[k])

\* a call of enrichLeadWithPersonalityAnalysis made on its own has returned
DirectCallReturned == caller = "direct" /\ epc = "idle"

\* C1: enrichment is idempotent on Done leads. Called on a lead that has a
\* personality_analysis without an error field, enrichLeadWithPersonalityAnalysis
\* returns the lead with every field unchanged and issues no search, fetch or LLM
\* call; and a run started on a state where every lead is in that condition ends
\* at once with no provider call and the state unchanged, however often repeated.
C1_IdempotentOnDone ==
    /\ []((DirectCallReturned /\ IsDone(leadArg))
            => (enrichedLead = leadArg /\ calls = NoCalls))
    /\ [][(caller' = "run" /\ invocations' # invocations /\ AllDone(stored))
            => (/\ epc' = "idle"
                /\ calls' = NoCalls
                /\ stored' = stored
                /\ stateLeads' = stored)]_vars

\* a second invocation, a run, found two Done leads, one of them enriched by the
\* first, and ended without a provider call
C1_Witness ==
    /\ invocations = 2
    /\ caller = "run"
    /\ epc = "idle"
    /\ Len(stored) = 2
    /\ AllDone(stored)
    /\ \E k \in DOMAIN stored : stored[k].last_personality_analysis = "now"
    /\ stateLeads = stored
    /\ calls = NoCalls

\* C7: every object generatePersonalitySummary returns, on every path, has the eight
\* category keys, summary and intelligence_quality.
C7_AllCategoryKeys ==
    personalityAnalysis # Absent
        => (CategoryKeys \cup {"summary", "intelligence_quality"}) \subseteq DOMAIN personalityAnalysis

\* C8: after enrichLeadWithPersonalityAnalysis summarized, ready_for_outreach is true
\* only if the analysis has no error and its intelligence_quality is not 'low'.
C8_ReadyOnlyAboveLowQuality ==
    (personalityAnalysis # Absent /\ enrichedLead # Absent
        /\ enrichedLead.ready_for_outreach = "true")
        => /\ "error" \notin DOMAIN enrichedLead.personality_analysis
           /\ Field(enrichedLead.personality_analysis, "intelligence_quality") # "low"

\* the request to the model is out: the prompt holds combinedContent
PromptSent == epc = "llm"
JoinedContent == Join(websiteContents, Literal("separator", JoinSeparator))

\* C9: truncation safety. The content embedded in the prompt is at most 90,000
\* characters plus the truncation marker, it ends with the marker whenever the
\* joined content exceeds 90,000 characters, and the summarizer returns an object
\* whatever the contents and the answer are.
C9_TruncationSafety ==
    /\ PromptSent =>
         /\ TextLen(combinedContent) <= 90000 + Len(MarkerContext)
         /\ TextLen(JoinedContent) > 90000
                => EndsWith(combinedContent, "contextMarker", MarkerContext)
         /\ TextLen(JoinedContent) <= 90000 => combinedContent = JoinedContent
    /\ personalityAnalysis # Absent =>
         /\ {"summary", "intelligence_quality"} \subseteq DOMAIN personalityAnalysis
         /\ enrichedLead # Absent
         /\ enrichedLead.personality_analysis = personalityAnalysis

\* contents longer than the budget were cut and marked
C9_Witness ==
    /\ PromptSent
    /\ TextLen(JoinedContent) > 90000
    /\ TextLen(combinedContent) = 90000 + Len(MarkerContext)
    /\ EndsWith(combinedContent, "contextMarker", MarkerContext)

RECURSIVE PageChars(_)
\* the characters of page text in an entry
PageChars(t) ==
    IF t = <<>> THEN 0
    ELSE (IF t[1].c = "page" THEN t[1].n ELSE 0) + PageChars(Tail(t))

RECURSIVE FetchesAbove(_, _)
\* the fetches of the log that returned more than floor characters
FetchesAbove(log, floor) ==
    IF log = <<>> THEN <<>>
    ELSE (IF log[1].length > floor THEN <<log[1]>> ELSE <<>>) \o FetchesAbove(Tail(log), floor)

\* the call is scraping: its contents come from the pages fetched so far
Scraping == epc \in {"scrape", "additional", "summarize", "llm"} /\ leadArg.scraped_content = <<>>

\* C10: substantiality floor. A fetched page gives a content entry if and only if it
\* has more than 100 characters; a 40-character page and a 5,000-character page give
\* exactly one entry; the page content of an entry is at most 50,000 characters,
\* followed by the truncation marker when the page was longer.
C10_SubstantialityFloor ==
    Scraping =>
        LET kept == FetchesAbove(fetchLog, 100)
        IN  /\ Len(websiteContents) = Len(kept)
            /\ \A k \in 1..Len(kept) :
                 /\ k <= Len(websiteContents)
                 /\ PageChars(websiteContents[k])
                        = (IF kept[k].length > 50000 THEN 50000 ELSE kept[k].length)
                 /\ kept[k].length > 50000
                        <=> EndsWith(websiteContents[k], "truncated", MarkerTruncated)
                 /\ TextLen(websiteContents[k]) - TextLen(ContentEntry(kept[k].website, <<>>))
                        <= 50000 + Len(MarkerTruncated)
            /\ [k \in 1..Len(fetchLog) |-> fetchLog[k].length] = <<40, 5000>>
                    => Len(websiteContents) = 1

\* two candidates, a page of 40 characters and one of 5,000: one entry
C10_Witness ==
    /\ Scraping
    /\ epc = "summarize"
    /\ [k \in 1..Len(fetchLog) |-> fetchLog[k].length] = <<40, 5000>>
    /\ Len(websiteContents) = 1
    /\ PageChars(websiteContents[1]) = 5000

-----------------------------------------------------------------------------
(* Properties of the field classifier and of repeated contact-upgrade passes *)

\* the LinkedIn URLs the pass has met: stored ones and the extracted candidate
LinkedInSeen ==
    {existingLeads[k].linkedin_url : k \in DOMAIN existingLeads}
    \cup (IF IsContact(contactInfo) THEN {contactInfo.linkedin_url} ELSE {})

\* s is <scheme>://[subdomain.]linkedin.com/in/<slug>, the scheme http or https,
\* the subdomain one label (www, be, fr, ...)
ProfileShape(s) ==
    \E scheme \in {ReHttp \o ReColonSlashes, ReHttp \o ReS \o ReColonSlashes} :
        /\ StartsWith(s, scheme)
        /\ LET rest == SubSeq(s, Len(scheme) + 1, Len(s))
           IN  \E i \in 0..Len(rest) :
                 /\ i = 0 \/ (i > 1 /\ rest[i] = "." /\ \A j \in 1..(i - 1) : rest[j] \notin {".", "/"})
                 /\ StartsWith(SubSeq(rest, i + 1, Len(rest)), ReLinkedinIn)
                 /\ Len(rest) > i + Len(ReLinkedinIn)

\* C11: hasLowQualityLinkedIn is false for every URL of the personal-profile shape
\* https://[subdomain.]linkedin.com/in/<slug>, country subdomains such as
\* be.linkedin.com included, and true for an absent value and every other URL.
C11_ProfileShapeIsGood ==
    \A v \in LinkedInSeen :
        hasLowQualityLinkedIn(v) <=> ~(Truthy(v) /\ ProfileShape(v.s))

\* a lead marked by an earlier pass, one of whose fields is still low quality
StillLowQuality(lead) ==
    \/ hasLowQualityEmail(lead.email)
    \/ hasLowQualityLinkedIn(lead.linkedin_url)
    \/ hasLowQualityCompany(lead.company)
    \/ ~Truthy(lead.location)
    \/ lead.location = Str(TxtUnknown)

\* C12: contact-upgrade idempotence. A lead that has rocketreach_updated = true when
\* a pass starts is skipped by it: not selected, no search, fetch or model call
\* issued for it, none of its fields changed, even if a field is still low quality.
C12_UpdatedLeadSkipped ==
    \A k \in DOMAIN passStart :
        passStart[k].rocketreach_updated
            => /\ \A j \in DOMAIN leadsToUpdate : leadsToUpdate[j] # k
               /\ ucalls[k] = NoCalls
               /\ existingLeads[k] = passStart[k]

\* a later pass worked on the second lead and skipped the first, marked by an
\* earlier pass and still holding a low-quality field
C12_Witness ==
    /\ Len(passStart) = 2
    /\ passStart[1].rocketreach_updated
    /\ StillLowQuality(passStart[1])
    /\ ucalls[1] = NoCalls
    /\ ucalls[2].search = 1
    /\ existingLeads[1] = passStart[1]

\* the pass that last ran issued calls for lead k and left it as it was
AttemptedInVain(k) == ucalls[k].search = 1 /\ existingLeads[k] = passStart[k]

\* C13: a lead for which no profile was found, or whose extraction gave no field
\* that passes the decider, is marked as attempted: the next pass over the same
\* stored leads does not select it again.
C13_AttemptedNotRetried ==
    [][UpdateExistingStart
        => \A k \in DOMAIN ucalls :
             AttemptedInVain(k) => \A j \in DOMAIN leadsToUpdate' : leadsToUpdate'[j] # k]_vars

\* an iteration of the pass has just ended on the lead leadBefore
IterationDone == ui > 1 /\ leadBefore # NoContact

\* no extracted field passes its test of lines 997-1023
NoFieldPasses ==
    \/ ~IsContact(contactInfo)
    \/ /\ ~(Truthy(contactInfo.email) /\ isEmailBetter(contactInfo.email, leadBefore.email))
       /\ ~(Truthy(contactInfo.linkedin_url)
              /\ isLinkedInBetter(contactInfo.linkedin_url, leadBefore.linkedin_url))
       /\ ~(Truthy(contactInfo.company)
              /\ isCompanyBetter(contactInfo.company, leadBefore.company))
       /\ ~(Truthy(contactInfo.title) /\ isTitleBetter(contactInfo.title, leadBefore.title))
       /\ ~(Truthy(contactInfo.location)
              /\ (~Truthy(leadBefore.location) \/ leadBefore.location = Str(TxtUnknown)))

\* C14: when no profile is found, extraction returns nothing, the search throws or
\* no extracted field passes the decider, the lead's email, linkedin_url, company,
\* title and location are left as they were and rocketreach_updated stays unset.
C14_FailedUpgradeLeavesLead ==
    (IterationDone /\ NoFieldPasses)
        => /\ LeadAfter.email = leadBefore.email
           /\ LeadAfter.linkedin_url = leadBefore.linkedin_url
           /\ LeadAfter.company = leadBefore.company
           /\ LeadAfter.title = leadBefore.title
           /\ LeadAfter.location = leadBefore.location
           /\ ~LeadAfter.rocketreach_updated
           /\ LeadAfter = leadBefore

\* the extraction answered, none of its fields passed, and the lead kept its
\* low-quality email
C14_Witness ==
    /\ IterationDone
    /\ IsContact(contactInfo)
    /\ NoFieldPasses
    /\ hasLowQualityEmail(leadBefore.email)
    /\ LeadAfter = leadBefore
    /\ ucalls[leadsToUpdate[ui - 1]].llm = 1

\* the OR of the four field tests
AnyFieldLow(lead) ==
    \/ hasLowQualityEmail(lead.email)
    \/ hasLowQualityLinkedIn(lead.linkedin_url)
    \/ hasLowQualityCompany(lead.company)
    \/ ~Truthy(lead.location)
    \/ lead.location = Str(TxtUnknown)

\* C15: needsRocketReachUpdate is false for a lead marked rocketreach_updated and
\* otherwise the OR of low-quality email, low-quality linkedin_url, low-quality
\* company and missing or 'Unknown' location; the pass selects exactly those
\* leads, so a lead whose fields are all good is never searched for.
C15_NeedsUpdateIsOr ==
    /\ \A k \in DOMAIN existingLeads :
         needsRocketReachUpdate(existingLeads[k])
            <=> (~existingLeads[k].rocketreach_updated /\ AnyFieldLow(existingLeads[k]))
    /\ \A k \in DOMAIN passStart :
         /\ (\E j \in DOMAIN leadsToUpdate : leadsToUpdate[j] = k)
                <=> (~passStart[k].rocketreach_updated /\ AnyFieldLow(passStart[k]))
         /\ ~AnyFieldLow(passStart[k]) => ucalls[k] = NoCalls

\* a pass selected a lead whose only flaw is its location and left aside a lead
\* whose fields are all good
C15_Witness ==
    /\ upc = "loop"
    /\ Len(passStart) = 2
    /\ \E k \in DOMAIN passStart :
         /\ ~passStart[k].rocketreach_updated
         /\ ~AnyFieldLow(passStart[k])
         /\ \A j \in DOMAIN leadsToUpdate : leadsToUpdate[j] # k
    /\ \E k \in DOMAIN passStart :
         /\ ~hasLowQualityEmail(passStart[k].email)
         /\ ~hasLowQualityLinkedIn(passStart[k].linkedin_url)
         /\ ~hasLowQualityCompany(passStart[k].company)
         /\ \E j \in DOMAIN leadsToUpdate : leadsToUpdate[j] = k

-----------------------------------------------------------------------------
(* Degraded results of the summarizer and terminal states of the orchestrator *)

\* the model answered with text that JSON.parse rejects
ParseFailed == summaryResponse.kind = "notJson"

\* what the fallback object carries besides the categories
DegradedEnvelope ==
    /\ personalityAnalysis.intelligence_quality = "low"
    /\ "error" \in DOMAIN personalityAnalysis
    /\ personalityAnalysis.error = "JSON parsing failed"
    /\ TextLen(personalityAnalysis.raw_response) <= 500
    /\ personalityAnalysis.raw_response =
           Substring0(TextOf("answer", summaryResponse.length), 500)
    /\ enrichedLead # Absent
    /\ enrichedLead.personality_analysis = personalityAnalysis

\* C16 as stated: when the answer of the model is not parseable JSON,
\* generatePersonalitySummary does not throw and returns an object in which every
\* one of the eight categories holds the parsing-error placeholder,
\* intelligence_quality is 'low', error is set and raw_response is the first 500
\* characters at most of the answer.
C16_EveryCategoryParsingError ==
    ParseFailed =>
        /\ \A key \in CategoryKeys :
               personalityAnalysis[key] =
                   "Analysis parsing error - unable to extract information"
        /\ DegradedEnvelope

\* C16 amended: the same, except that outreach_angles holds the generic
\* recommendation 'Standard professional outreach recommended' (line 242) and only
\* the other seven categories hold the parsing-error placeholder.
C16_ParseFailureDegrades ==
    ParseFailed =>
        /\ \A key \in CategoryKeys \ {"outreach_angles"} :
               personalityAnalysis[key] =
                   "Analysis parsing error - unable to extract information"
        /\ personalityAnalysis.outreach_angles =
               "Standard professional outreach recommended"
        /\ DegradedEnvelope

\* an unparseable answer one character longer than the cap was cut to the cap
C16_Witness ==
    /\ ParseFailed
    /\ summaryResponse.length = 501
    /\ TextLen(personalityAnalysis.raw_response) = 500
    /\ enrichedLead # Absent
    /\ enrichedLead.personality_analysis = personalityAnalysis

\* the lead in hand was never attempted: no personality_analysis is recorded on it
NotStarted(lead) == lead.personality_analysis = Absent

\* a step of a run that issues a search, a fetch or a request to the model
ProviderCallInRun ==
    /\ caller = "run"
    /\ epc \in {"lead", "scrape", "additional", "summarize"}
    /\ calls' # calls

\* C17: a batch submitted again to EnrichNode.run acts only on leads still in
\* NotStarted. A lead that reached a terminal state in an earlier run, Done or
\* Failed, triggers no further search, fetch or LLM call.
C17_OnlyNotStartedActedOn == [][ProviderCallInRun => NotStarted(leadArg)]_vars

\* the leads of the batch that completed before the one in hand
CompletedInBatch == {leadsToEnrich[j] : j \in 1..(ei - 1)}

\* the process exits in the middle of a batch, after at least one lead completed
ExitDuringBatch ==
    /\ caller = "run"
    /\ caller' = "exited"
    /\ epc \in {"lead", "scrape", "additional", "summarize", "llm"}
    /\ ei > 1

\* C18: crash resumability. The result of each lead of a batch is written to the
\* durable store when that lead completes: when the process exits while lead k+1
\* is being processed, the store the restart loads holds a terminal state for
\* each of the leads 1..k, and the restart does not select them again.
C18_CompletedLeadsSurviveExit ==
    [][ExitDuringBatch =>
          \A k \in CompletedInBatch :
              /\ ~NotStarted(stored'[k])
              /\ stored'[k] = stateLeads[k]]_vars

\* the orchestrator returned the lead with a recorded failure
ReturnedFailed ==
    /\ enrichedLead # Absent
    /\ enrichedLead.personality_analysis # Absent
    /\ "error" \in DOMAIN enrichedLead.personality_analysis

\* C19: a lead that could not be enriched is always clearly marked. On every
\* failure path of the orchestrator (no search results, no substantial content,
\* summarizer error, unexpected exception) the lead ends with
\* personality_analysis.error set AND ready_for_outreach explicitly false.
C19_FailedLeadMarked ==
    ReturnedFailed =>
        /\ enrichedLead.personality_analysis.error # "undefined"
        /\ enrichedLead.ready_for_outreach = "false"

\* getPersonalityDataForIntegration was called and its value is in hand
IntegrationReturned == integrationData # NoData

\* the lead handed over has an analysis with an error recorded on it
ErrorIsSet(lead) ==
    /\ AnalysisOf(lead) # Absent
    /\ "error" \in DOMAIN AnalysisOf(lead)

\* C20: getPersonalityDataForIntegration returns status 'no_analysis' exactly when
\* the lead has no personality_analysis, 'analysis_failed' with the error exactly
\* when personality_analysis.error is set, and 'analysis_complete' otherwise; in
\* the complete case each of the eight lists of competitive_intelligence is
\* present, the empty list when the analysis lacks it, and
\* metadata.ready_for_outreach is the flag of the lead, or false without one.
C20_IntegrationStatus ==
    IntegrationReturned =>
        /\ integrationData.status \in {"no_analysis", "analysis_failed", "analysis_complete"}
        /\ integrationData.status = "no_analysis" <=> AnalysisOf(integrationLead) = Absent
        /\ integrationData.status = "analysis_failed" <=> ErrorIsSet(integrationLead)
        /\ integrationData.status = "analysis_failed" =>
               integrationData.error = AnalysisOf(integrationLead).error
        /\ integrationData.status = "analysis_complete" =>
               /\ \A f \in DOMAIN IntegrationListSource :
                      /\ f \in DOMAIN integrationData.competitive_intelligence
                      /\ integrationData.competitive_intelligence[f] =
                             IF IntegrationListSource[f] \in DOMAIN AnalysisOf(integrationLead)
                             THEN AnalysisOf(integrationLead)[IntegrationListSource[f]]
                             ELSE "empty list"
               /\ integrationData.metadata.ready_for_outreach =
                      IF "ready_for_outreach" \in DOMAIN integrationLead
                         /\ integrationLead.ready_for_outreach = "true"
                      THEN "true" ELSE "false"

\* a lead without the flag and without the lists was reported complete, with the
\* lists empty and the flag false
C20_Witness ==
    /\ IntegrationReturned
    /\ integrationData.status = "analysis_complete"
    /\ "ready_for_outreach" \notin DOMAIN integrationLead
    /\ "current_projects" \notin DOMAIN AnalysisOf(integrationLead)
    /\ integrationData.competitive_intelligence.current_projects = "empty list"
    /\ integrationData.metadata.ready_for_outreach = "false"

-----------------------------------------------------------------------------
(* Selection, schedule and source bounds of the enrichment orchestrator *)

\* a run is between its selection and its return
Running == caller = "run" /\ epc \in {"lead", "scrape", "additional", "summarize", "llm", "save"}

\* the stored leads without a successful personality_analysis
Candidates == {i \in DOMAIN stored : ~IsDone(stored[i])}

Selected == {leadsToEnrich[j] : j \in DOMAIN leadsToEnrich}

\* lead i goes before lead j: higher score, a missing score counting as 0, or the
\* same score and stored earlier
RanksBefore(i, j) ==
    LET si_ == IF "confidence_score" \in DOMAIN stored[i] THEN stored[i].confidence_score ELSE 0
        sj_ == IF "confidence_score" \in DOMAIN stored[j] THEN stored[j].confidence_score ELSE 0
    IN  si_ > sj_ \/ (si_ = sj_ /\ i < j)

SelectionIsTopTen ==
    /\ Len(leadsToEnrich) <= 10
    /\ Cardinality(Selected) = Len(leadsToEnrich)
    /\ Len(leadsToEnrich) = IF Cardinality(Candidates) < 10 THEN Cardinality(Candidates) ELSE 10
    /\ Selected \subseteq Candidates
    /\ \A i \in Selected : \A j \in Candidates \ Selected : RanksBefore(i, j)

ProcessedInDescendingOrder ==
    /\ \A a, b \in DOMAIN leadsToEnrich :
           a < b => RanksBefore(leadsToEnrich[a], leadsToEnrich[b])
    /\ epc # "save" =>
           /\ ei \in DOMAIN leadsToEnrich
           /\ leadArg = stored[leadsToEnrich[ei]]
           /\ \A j \in DOMAIN leadsToEnrich :
                  j > ei => stateLeads[leadsToEnrich[j]] = stored[leadsToEnrich[j]]

UnselectedUntouched ==
    \A k \in DOMAIN stored \ Selected : stateLeads[k] = stored[k]

\* C21: EnrichNode.run selects at most 10 leads per invocation, the leads without
\* a successful personality_analysis that have the highest confidence_score (a
\* missing score counted as 0, ties kept in stored order), and processes them in
\* descending confidence_score order; the leads not selected are left completely
\* unchanged by that run, in memory and in what it saves.
C21_TopTenByConfidence ==
    /\ [](Running => (SelectionIsTopTen /\ ProcessedInDescendingOrder /\ UnselectedUntouched))
    /\ [][(caller = "run" /\ epc = "save" /\ epc' = "idle")
            => \A k \in DOMAIN stored \ Selected : stored'[k] = stored[k]]_vars

\* a batch of eleven with the best lead stored last and the worst first: the last
\* lead went first, the tenth selected is in hand, the first stored lead is left out
C21_Witness ==
    /\ Running
    /\ Len(stored) = 11
    /\ Len(leadsToEnrich) = 10
    /\ leadsToEnrich[1] = 11
    /\ 1 \notin Selected
    /\ ei = 10
    /\ epc = "llm"

\* a step that issues a search, a fetch or a request to the model
IssuesCall ==
    \/ calls'.search > calls.search
    \/ calls'.fetch > calls.fetch
    \/ calls'.llm > calls.llm

\* the leads of the batch before the one in hand are merged, the later ones untouched
OneLeadAtATime ==
    /\ ei \in DOMAIN leadsToEnrich
    /\ leadArg = stored[leadsToEnrich[ei]]
    /\ ei > 1 => (enrichedLead # Absent /\ stateLeads[leadsToEnrich[ei - 1]] = enrichedLead)
    /\ \A j \in DOMAIN leadsToEnrich : j >= ei => stateLeads[leadsToEnrich[j]] = stored[leadsToEnrich[j]]

\* C22: enrichment is strictly sequential. No call is issued while the request to
\* the model is in flight; in a batch a call is issued for a lead only after the
\* result of the lead before it was merged and before any later lead is touched;
\* and the request to the model goes out only after the search and every fetch
\* of the selected sites of that lead have returned.
C22_StrictlySequential ==
    [][IssuesCall =>
          /\ epc \in {"lead", "scrape", "additional", "summarize"}
          /\ caller = "run" => OneLeadAtATime
          /\ calls'.llm > calls.llm =>
                 /\ epc = "summarize"
                 /\ calls'.search = calls.search /\ calls'.fetch = calls.fetch
                 /\ Len(fetchLog) >= Len(websitesToScrape)
                 /\ epc' = "llm"]_vars

\* the request for the second lead of a batch is in flight, the first lead merged
C22_Witness ==
    /\ caller = "run"
    /\ epc = "llm"
    /\ ei = 2
    /\ calls.llm = 2
    /\ calls.fetch >= 2
    /\ stateLeads[leadsToEnrich[1]] = enrichedLead
    /\ stateLeads[leadsToEnrich[2]] = stored[leadsToEnrich[2]]

\* the lead in hand has no successful analysis and carries scraped content
ReusesContent ==
    /\ leadArg # Absent
    /\ ~IsDone(leadArg)
    /\ leadArg.scraped_content # <<>>

\* C23: content reuse. For a lead without a successful analysis that carries a
\* non-empty scraped_content array, enrichLeadWithPersonalityAnalysis issues no
\* search and no fetch and goes straight to exactly one summarization call over
\* the stored content.
C23_ContentReuse ==
    /\ []((caller = "direct" /\ ReusesContent) =>
            /\ calls.search = 0 /\ calls.fetch = 0
            /\ epc \in {"lead", "summarize", "llm", "idle"}
            /\ calls.llm = IF epc \in {"llm", "idle"} THEN 1 ELSE 0
            /\ epc \in {"summarize", "llm"} => websiteContents = leadArg.scraped_content
            /\ epc = "llm" => combinedContent = CombineContent(leadArg.scraped_content))
    /\ [][ReusesContent =>
            /\ calls'.search <= calls.search /\ calls'.fetch <= calls.fetch
            /\ epc = "lead" => epc' \in {"summarize", "idle"}]_vars

\* a direct call on a lead with two stored pages returned after one request to the
\* model and nothing else
C23_Witness ==
    /\ DirectCallReturned
    /\ ReusesContent
    /\ Len(leadArg.scraped_content) = 2
    /\ calls = [search |-> 0, fetch |-> 0, llm |-> 1]
    /\ enrichedLead.personality_analysis # Absent

\* scraping is over for the lead in hand and gave nothing usable: nothing was
\* reused, and every page fetched, if any, was empty or at most 100 characters
ZeroUsableSources ==
    /\ epc = "summarize"
    /\ leadArg.scraped_content = <<>>
    /\ \A k \in DOMAIN fetchLog : fetchLog[k].length <= 100

\* C24: when scraping yields zero usable sources for a lead, after the widened
\* retry, enrichLeadWithPersonalityAnalysis issues no summarization call, does not
\* throw, and returns the lead Failed: personality_analysis.error is the
\* no-substantial-content reason and ready_for_outreach is false.
C24_NoContentFails ==
    [][(ZeroUsableSources /\ caller' # "exited") =>
          /\ calls' = calls
          /\ epc' \in {"idle", "lead", "save"}
          /\ enrichedLead' # Absent
          /\ enrichedLead'.personality_analysis.error =
                 "No substantial content found for analysis (LinkedIn excluded)"
          /\ enrichedLead'.ready_for_outreach = "false"
          /\ caller = "run" => stateLeads'[leadsToEnrich[ei]] = enrichedLead']_vars

\* five pages were fetched for a lead, the two of the widened retry among them,
\* none usable, and the call returned the failed lead without a request to the model
C24_Witness ==
    /\ DirectCallReturned
    /\ calls = [search |-> 1, fetch |-> 5, llm |-> 0]
    /\ enrichedLead # Absent
    /\ enrichedLead.personality_analysis # Absent
    /\ Field(enrichedLead.personality_analysis, "error") =
           "No substantial content found for analysis (LinkedIn excluded)"
    /\ enrichedLead.ready_for_outreach = "false"

-----------------------------------------------------------------------------
(* Properties of the person search *)

\* an answer of the provider with at least one usable url in it
Usable(answer) ==
    /\ answer.kind = "results"
    /\ \E i \in DOMAIN answer.list :
           /\ answer.list[i].linkedin_url.t = "str"
           /\ StartsWith(answer.list[i].linkedin_url.s, <<"h","t","t","p">>)
           /\ ~Includes(answer.list[i].linkedin_url.s, PatSearchResult)

\* the four variants for the person searched, as the claim words them
QueryVariants ==
    LET company == IF searchCompany.t = "str" THEN searchCompany.s
                   ELSE <<"u","n","d","e","f","i","n","e","d">>
    IN  <<searchName \o <<" ">> \o company,
          searchName \o <<" ","L","i","n","k","e","d","I","n">>,
          <<"\"">> \o searchName \o <<"\"">> \o <<" ">> \o company,
          searchName>>

\* C25: query-widening fallback. searchPersonWithJina tries "{name} {company}",
\* "{name} LinkedIn", the quoted name with the company and the bare name in exactly
\* that order, returns the results of the first variant that yields at least one
\* usable URL without querying a later one, moves on when a variant returns nothing
\* or throws, and returns an empty list, never an exception, when all are exhausted.
C25_QueryWidening ==
    /\ Len(queryLog) = Len(answerLog)
    /\ Len(queryLog) <= 4
    /\ \A k \in DOMAIN queryLog : queryLog[k] = QueryVariants[k]
    /\ \A k \in DOMAIN answerLog : k < Len(answerLog) => ~Usable(answerLog[k])
    /\ spc = "query" =>
           /\ searchReturn = NotReturned
           /\ approach = Len(queryLog) + 1
           /\ \A k \in DOMAIN answerLog : ~Usable(answerLog[k])
    /\ spc = "done" =>
           /\ searchReturn.returned
           /\ answerLog # <<>>
           /\ IF Usable(answerLog[Len(answerLog)])
              THEN /\ searchReturn.results # <<>>
                   /\ searchReturn.results =
                          ValidResults(answerLog[Len(answerLog)].list, searchName)
              ELSE /\ Len(queryLog) = 4
                   /\ searchReturn.results = <<>>

\* the first query threw, the second returned nothing usable, and the third gave the
\* results that were returned; the bare name was never queried
C25_Witness ==
    /\ spc = "done"
    /\ Len(queryLog) = 3
    /\ answerLog[1].kind = "throws"
    /\ answerLog[2].kind = "results" /\ ~Usable(answerLog[2])
    /\ Usable(answerLog[3])
    /\ Len(searchReturn.results) = 1

-----------------------------------------------------------------------------
(* Source selection and fetching *)

\* the url has one of the parts that keep a result from being fetched
Excluded(url) ==
    \/ Includes(url, <<"l","i","n","k","e","d","i","n",".","c","o","m">>)
    \/ Includes(url, <<"/","l","o","g","i","n">>)
    \/ Includes(url, <<"/","s","i","g","n","u","p">>)
    \/ Includes(url, <<"a","u","t","h">>)
    \/ Includes(url, <<"s","i","g","n","-","i","n">>)

ReferenceSources(lead) ==
    {k \in DOMAIN lead.personality_sources :
        lead.personality_sources[k].type = "linkedin_reference"}

\* C26: source selection bounds. For any search result list at most one
\* linkedin.com reference source is recorded, at most 3 candidates are fetched in
\* the first pass, no URL containing linkedin.com, /login, /signup, auth or sign-in
\* is ever fetched, and the fetch calls for one lead never exceed 5.
C26_SourceSelectionBounds ==
    /\ Len(fetchLog) <= 5
    /\ Len(websitesToScrape) <= 3
    /\ epc = "scrape" => Len(fetchLog) < Len(websitesToScrape)
    /\ \A k \in DOMAIN fetchLog : ~Excluded(fetchLog[k].website.url)
    /\ \A k \in DOMAIN websitesToScrape : ~Excluded(websitesToScrape[k].url)
    /\ caller = "direct" => calls.fetch <= 5
    /\ enrichedLead # Absent =>
           /\ Cardinality(ReferenceSources(enrichedLead)) <= 1
           /\ \A k \in DOMAIN enrichedLead.personality_sources :
                  k \notin ReferenceSources(enrichedLead)
                      => ~Excluded(enrichedLead.personality_sources[k].url)
    /\ \A i \in DOMAIN stateLeads : Cardinality(ReferenceSources(stateLeads[i])) <= 1

\* a search gave two linkedin.com results, a login page and five other pages; the
\* lead came back after five fetches with one reference source recorded
C26_Witness ==
    /\ DirectCallReturned
    /\ calls.fetch = 5
    /\ enrichedLead # Absent
    /\ enrichedLead.personality_metadata # Absent
    /\ Field(enrichedLead.personality_metadata, "linkedin_urls_found") = 2
    /\ Cardinality(ReferenceSources(enrichedLead)) = 1
    /\ Len(enrichedLead.personality_sources) = 4

\* the fetches of the first pass and those of the retry, for the lead in hand
FirstPass == SubSeq(fetchLog, 1, Len(websitesToScrape))
Retry == SubSeq(fetchLog, Len(websitesToScrape) + 1, Len(fetchLog))

UsableFetch(entry) == entry.length > 100

\* candidates 4 and 5, as far as they exist
RetryCandidates ==
    SubSeq(nonLinkedInWebsites, 4,
           IF Len(nonLinkedInWebsites) < 5 THEN Len(nonLinkedInWebsites) ELSE 5)

\* C27: widened retry. After the first pass over the top 3 candidates, if fewer
\* than 2 usable sources were obtained and more than 3 candidates exist, candidates
\* 4 and 5 are attempted in order, at most 2 more fetches, stopping as soon as one
\* is usable; with 2 or more usable sources, or no further candidate, no additional
\* fetch is issued.
C27_WidenedRetry ==
    (epc = "summarize" /\ leadArg.scraped_content = <<>>) =>
        /\ Len(fetchLog) >= Len(websitesToScrape)
        /\ \A k \in DOMAIN FirstPass : FirstPass[k].website = websitesToScrape[k]
        /\ IF Len(SelectSeq(FirstPass, UsableFetch)) < 2 /\ Len(nonLinkedInWebsites) > 3
           THEN /\ Len(Retry) \in 1..2
                /\ Len(Retry) <= Len(RetryCandidates)
                /\ \A k \in DOMAIN Retry :
                       /\ Retry[k].website = RetryCandidates[k]
                       /\ k < Len(Retry) => ~UsableFetch(Retry[k])
                /\ Len(Retry) < Len(RetryCandidates) => UsableFetch(Retry[Len(Retry)])
           ELSE Retry = <<>>

\* one of the first three pages was usable, five candidates existed, and the retry
\* stopped at candidate 4, which was usable
C27_Witness ==
    /\ epc = "summarize"
    /\ leadArg.scraped_content = <<>>
    /\ Len(nonLinkedInWebsites) = 5
    /\ Len(SelectSeq(FirstPass, UsableFetch)) = 1
    /\ Len(Retry) = 1
    /\ UsableFetch(Retry[1])

\* the fetch failed: the reader threw, or returned nothing and the direct request threw
FetchFailed(entry) ==
    \/ entry.outcome.reader = "throws"
    \/ (entry.outcome.reader = "returns" /\ entry.outcome.length = 0
        /\ entry.outcome.direct = "throws")

\* the leads of the batch up to position j were processed
ProcessedUpTo(j) ==
    \A i \in 1..j : stateLeads[leadsToEnrich[i]].personality_analysis # Absent

\* C28: a single fetch failure never aborts scraping. getWebsiteContent returns a
\* string, empty on any failure (an unconfigured or throwing reader included), and
\* never throws; after a failed or insubstantial fetch of one candidate the other
\* selected candidates of the lead are still fetched, and the other leads of the
\* batch are still processed.
C28_FetchFailureIsolated ==
    /\ \A k \in DOMAIN fetchLog :
           /\ ~fetchLog[k].threw
           /\ FetchFailed(fetchLog[k]) => fetchLog[k].length = 0
    /\ (epc \in {"additional", "summarize", "llm"} /\ leadArg.scraped_content = <<>>) =>
           /\ Len(fetchLog) >= Len(websitesToScrape)
           /\ \A k \in DOMAIN websitesToScrape : fetchLog[k].website = websitesToScrape[k]
    /\ epc = "scrape" => Len(fetchLog) = si - 1
    /\ Running => ProcessedUpTo(ei - 1)
    /\ (caller = "run" /\ epc = "save") => ProcessedUpTo(Len(leadsToEnrich))

\* the first of three selected pages failed with a throwing reader, the second with
\* both requests failing, and the third was fetched all the same; the retry is next
C28_Witness ==
    /\ epc = "additional"
    /\ Len(websitesToScrape) = 3
    /\ Len(fetchLog) = 3
    /\ fetchLog[1].outcome.reader = "throws"
    /\ fetchLog[2].outcome.reader = "returns" /\ fetchLog[2].outcome.direct = "throws"
    /\ fetchLog[3].length > 100
    /\ Len(websiteContents) = 1


\* a pass of enrichLeadWithPersonalityAnalysis over leadArg returns in this step: the
\* value returned is enrichedLead'
PassReturns ==
    /\ leadArg # Absent
    /\ epc \in {"lead", "scrape", "additional", "summarize", "llm"}
    /\ epc' \in {"idle", "lead", "save"}
    /\ caller' # "exited"

\* the list holds an entry for the same page in the same role
HasSource(sources, entry) ==
    \E m \in DOMAIN sources : sources[m].url = entry.url /\ sources[m].type = entry.type

\* C29: sources are append-only across passes. Once a source entry is recorded in
\* personality_sources of a lead, every later enrichment pass over that lead, a
\* re-run after a summarizer error and a run reusing stored scraped content
\* included, leaves that entry in the list of the lead it returns; passes only add.
C29_SourcesAppendOnly ==
    [][PassReturns =>
          \A k \in DOMAIN leadArg.personality_sources :
              HasSource(enrichedLead'.personality_sources, leadArg.personality_sources[k])]_vars


\* the score went down: both values are numbers and the later one is the smaller
Lower(after, before) == after.t = "num" /\ before.t = "num" /\ after.v < before.v

\* C30: confidence_score is monotonically non-decreasing. For any sequence of LLM
\* enhancement, contact-upgrade, RocketReach enrichment and intelligence-enrichment
\* passes over a lead, and for any relevance_score returned by the model, the
\* confidence_score of the lead after a pass is never lower than before it.
C30_ConfidenceNonDecreasing ==
    [][\A k \in DOMAIN newLeads :
          k \in DOMAIN newLeads' =>
              ~Lower(newLeads'[k].confidence_score, newLeads[k].confidence_score)]_vars


-----------------------------------------------------------------------------
(* Properties of SearchNode.run *)

\* what tells one lead of a run from another: the search item and the persona
Ident(lead) == <<lead.name, lead.persona_id>>
Idents(leads) == [k \in DOMAIN leads |-> Ident(leads[k])]

RECURSIVE AtPositions(_, _, _)
\* the entries of a list at the positions of K, from position k on, in list order
AtPositions(leads, K, k) ==
    IF k > Len(leads) THEN <<>>
    ELSE IF k \in K THEN <<leads[k]>> \o AtPositions(leads, K, k + 1)
    ELSE AtPositions(leads, K, k + 1)

\* validateLeadsWithLLM wrote nothing but the two validation fields
OnlyVerdictWritten(before, after) ==
    /\ Len(after) = Len(before)
    /\ \A k \in DOMAIN before :
           after[k] = [before[k] EXCEPT !.is_valid_person = after[k].is_valid_person,
                                        !.validation_reason = after[k].validation_reason]

\* the reply held a verdict is_valid_person = false for position k, in a batch that
\* did not end in the catch block
ExplicitlyRejected(k) ==
    /\ runResponse.kind = "parsed"
    /\ ~BatchThrows(runFound, 0, runResponse)
    /\ \E e \in DOMAIN runResponse.validations :
           /\ runResponse.validations[e].kind = "entry"
           /\ runResponse.validations[e].index = k - 1
           /\ runResponse.validations[e].is_valid_person = "false"

PastValidation == rpc \in {"rocketreach", "enhance", "save", "idle"} /\ runs > 0

\* C32: validation never silently discards leads. validateLeadsWithLLM removes and
\* reorders nothing, writing is_valid_person and validation_reason only;
\* SearchNode.run drops a newly found lead only if the model explicitly returned
\* is_valid_person = false for it in a batch that did not fail; and the leads stored
\* before the run are all retained, in order, in the saved list.
C32_NoSilentDiscard ==
    /\ (PastValidation /\ runResponse # NoResponse) =>
           /\ OnlyVerdictWritten(runFound, runValidated)
           /\ \E K \in SUBSET DOMAIN runValidated :
                  /\ \A k \in DOMAIN runValidated \ K : ExplicitlyRejected(k)
                  /\ Idents(runAllLeads) = Idents(AtPositions(runValidated, K, 1))
    /\ (PastValidation /\ runResponse = NoResponse) => Idents(runAllLeads) = Idents(runFound)
    /\ rpc # "off" =>
           /\ Len(runState) >= Len(runStoredBefore)
           /\ Idents(SubSeq(runState, 1, Len(runStoredBefore))) = Idents(runStoredBefore)
    /\ (rpc = "idle" /\ runs > 0) =>
           Idents(runState) = Idents(runStoredBefore) \o Idents(runAllLeads)

\* a second run over a state holding leads found two leads, the model rejected the
\* first, and the saved list is the stored leads followed by the other one
C32_Witness ==
    /\ rpc = "idle"
    /\ runs = 2
    /\ runStoredBefore # <<>>
    /\ Len(runFound) = 2
    /\ runResponse.kind = "parsed"
    /\ ExplicitlyRejected(1)
    /\ Idents(runAllLeads) = <<Ident(runFound[2])>>
    /\ Len(runState) = Len(runStoredBefore) + 1


-----------------------------------------------------------------------------
(* Audit trail of the contact-upgrade pass *)

AuditedFields == {"email", "linkedin_url", "company", "title", "location"}

\* the fields of stored lead k whose value differs from the one at the start of the pass
ChangedFields(k) == {f \in AuditedFields : existingLeads[k][f] # passStart[k][f]}

\* the fields named by the diff entries of stored lead k
DiffFields(k) ==
    {existingLeads[k].rocketreach_updates[e].field :
        e \in DOMAIN existingLeads[k].rocketreach_updates}

\* the decider of a field approves the step from the old value to the new one
Approved(f, new, old) ==
    /\ Truthy(new)
    /\ CASE f = "email" -> isEmailBetter(new, old)
         [] f = "linkedin_url" -> isLinkedInBetter(new, old)
         [] f = "company" -> isCompanyBetter(new, old)
         [] f = "title" -> isTitleBetter(new, old)
         [] OTHER -> missingLocation(old)

\* C33: upgrade audit trail. After updateExistingLeadsWithRocketReach, the email,
\* linkedin_url, company, title or location of a lead differs from its value before
\* the pass if and only if rocketreach_updates holds a diff entry for that field;
\* rocketreach_updated is true exactly when at least one field changed, and every
\* change was approved by the decider of its field.  Stated for the leads that were
\* not marked updated when the pass began.
C33_UpgradeAuditTrail ==
    (upc \in {"idle", "loop"} /\ Len(passStart) = Len(existingLeads)) =>
        \A k \in DOMAIN existingLeads :
            ~passStart[k].rocketreach_updated =>
                /\ ChangedFields(k) = DiffFields(k)
                /\ existingLeads[k].rocketreach_updated <=> ChangedFields(k) # {}
                /\ \A f \in ChangedFields(k) :
                       Approved(f, existingLeads[k][f], passStart[k][f])


-----------------------------------------------------------------------------
(* Properties of the email quality classifier *)

PlaceholderDomains == {DomFinancialservic, DomExample, DomTest, DomPlaceholder}
RolePrefixes == {LocalNoreply, LocalSupport, LocalInfo}

\* C34: hasLowQualityEmail flags an address as low quality exactly when it is
\* absent, its domain is one of the configured placeholder domains, or its local
\* part is a role-based prefix (noreply, support, info); a personal address at a
\* real domain whose local part merely ends with such a word, like
\* marc.info@acme.com, is not flagged.
C34_LowQualityEmailExact ==
    qpc = "done" =>
        (qFlag <=> \/ qEmail.kind = "absent"
                   \/ /\ qEmail.kind = "address"
                      /\ \/ qEmail.domain \in PlaceholderDomains
                         \/ qEmail.local \in RolePrefixes)


-----------------------------------------------------------------------------
(* Duplicates in the list SearchNode.run saves *)

\* no two leads of the list share the key `${email}_${linkedin_url}`
NoTwoSameKey(leads) ==
    \A a, b \in DOMAIN leads : a # b => KeyOf(leads[a]) # KeyOf(leads[b])

\* C35: after SearchNode.run has saved, the persisted lead list holds no two leads
\* with the same (email, linkedin_url) key: duplicates are removed across queries,
\* across personas and against the leads an earlier run stored, so a second run on
\* the same state appends no copy of a stored lead.
C35_SavedListHasNoDuplicateKeys ==
    (rpc = "idle" /\ runs > 0) => NoTwoSameKey(runState)


-----------------------------------------------------------------------------
(* Properties of the RocketReach enrichment of new leads *)

EnrichReturned == npc = "idle" /\ nInvocations > 0

\* C36: after enrichLeadsWithRocketReach returns, every lead of the input has
\* rocketreach_enriched = true or rocketreach_attempted = true, on every path
\* including a search that throws; so a second call over the same leads issues no
\* search, fetch or model call; and the pass never overwrites an email or a
\* linkedin_url that was already non-empty.
C36_EnrichedOncePerLead ==
    /\ EnrichReturned =>
         \A k \in DOMAIN nLeads :
            nLeads[k].rocketreach_enriched \/ nLeads[k].rocketreach_attempted
    /\ nInvocations > 1 => nCalls = NoCalls
    /\ \A k \in DOMAIN nLeads :
         /\ Truthy(nInput[k].email) => nLeads[k].email = nInput[k].email
         /\ Truthy(nInput[k].linkedin_url) => nLeads[k].linkedin_url = nInput[k].linkedin_url

\* a second call has returned; the search of one lead threw, and a lead with an
\* email and no profile URL received the URL of an answer carrying another email
C36_Witness ==
    /\ EnrichReturned
    /\ nInvocations = 2
    /\ \E k \in 1..Len(nLog) : nLog[k] = "searchThrows"
    /\ \E k \in DOMAIN nLeads :
         /\ nInput[k].email = Str(EmailPlaceholderJane)
         /\ nInput[k].linkedin_url = JNull
         /\ nLeads[k].linkedin_url = Str(UrlLinkedinJane)
         /\ nLeads[k].rocketreach_enriched


-----------------------------------------------------------------------------
(* Repeated runs of EnrichNode.run *)

\* C37: no starvation under repeated runs: when EnrichNode.run is invoked again and
\* again on the state it saved, every lead that lacks a successful
\* personality_analysis is eventually selected and attempted, even when more than
\* 10 leads are pending and the attempts on the highest-confidence leads keep
\* failing.
\* (every lead of InitP is pending, and a lead once attempted stays in pAttempted)
C37_NoStarvation ==
    <>(\A k \in DOMAIN pLeads : k \in pAttempted)


-----------------------------------------------------------------------------
(* Source attribution of an enriched lead *)

\* the URLs whose pages passed the floor of line 355 and entered websiteContents
GivenToSummarizer ==
    {fetchLog[k].website.url : k \in {m \in DOMAIN fetchLog : fetchLog[m].length > substantialLength}}

\* the pass returns the lead it built after the answer of the summarizer
SummarizedPassReturns ==
    /\ Scraping
    /\ epc = "llm"
    /\ epc' \in {"idle", "lead", "save"}
    /\ caller' # "exited"

\* C38: in the personality_sources recorded on an enriched lead, an entry has
\* scraped_successfully = true only if that URL was fetched, its content passed the
\* substantiality floor and was part of the content given to the summarizer; and
\* every URL whose content was given to the summarizer, one obtained in the widened
\* retry included, appears in personality_sources.
C38_SourcesMatchSummarizedContent ==
    [][SummarizedPassReturns =>
          LET sources == enrichedLead'.personality_sources
          IN  /\ \A m \in DOMAIN sources :
                     sources[m].scraped_successfully => sources[m].url \in GivenToSummarizer
              /\ \A u \in GivenToSummarizer : \E m \in DOMAIN sources : sources[m].url = u]_vars

=============================================================================
